---- MODULE Spec2Model ----
(***************************************************************************)
(* AEROX risk decision and negotiation engine (agents/, api/).             *)
(*                                                                         *)
(* Units.  The Python code computes on floats; the model computes the same *)
(* quantities exactly on integers, and as doubles where the two differ:    *)
(*   - currency amounts (booking_amount, current_outstanding, upfront,     *)
(*     approved_amount) are quarter rupees (AmountScale), so 50007.50 is   *)
(*     200030; max_el is in whole rupees;                                  *)
(*   - the thresholds of the decision matrix are basis points (1/10000),   *)
(*     so 0.60 is 6000;                                                    *)
(*   - an intent score, a capacity score or a default probability is a     *)
(*     record [n, d, x]: n / d is the exact value of the formula that      *)
(*     gave it and Float(x) is the double the program holds.  A score    *)
(*     read from config.py or a request is Decimal(n, d): 0.32 is          *)
(*     Decimal(3200, BpScale), and a default probability of 0.15 is        *)
(*     Decimal(150, PdScale), per mille;                                   *)
(*   - LGD is in tenths (0.70 is 7);                                       *)
(*   - an unrounded expected loss pd * ead * lgd is therefore in units of  *)
(*     1/40000 rupee (ElScale); a rounded one, round(el, 2), is in paise;  *)
(*   - friction scores are in tenths (4.0 is 40).                          *)
(* Python's None is the empty sequence << >> and a present value v is <<v>>*)
(***************************************************************************)
EXTENDS Integers, Sequences, FiniteSets, TLC

VARIABLES
    DECISION_MATRIX,        \* agents/config.py: thresholds loaded once from config.yaml
    dataset1,               \* ModelLoader.dataset1: << >> (not loaded) or <<table>>
    conversation_history,   \* NegotiationAgent.conversation_history (one per process)
    decision,               \* the record process_booking_request returned last
    neg,                    \* the last handle_negotiation call and its outcome
    escalated,              \* conversations answered escalate = true since the last reset
    served,                 \* conversations that had a round processed since the last reset
    gate,                   \* the last application of the risk gate to a pair of scores
    gen,                    \* the last call of generate_options: its arguments and its list
    val,                    \* the last call of validate_compliance: its arguments and its result
    ana,                    \* the last call of FinancialAnalystAgent.analyze
    running,                \* the /api/negotiate calls that have started and not returned
    fb                      \* the last call of NegotiationAgent.negotiate taken alone

vars == <<DECISION_MATRIX, dataset1, conversation_history, decision, neg, escalated,
          served, gate, gen, val, ana, running, fb>>

-----------------------------------------------------------------------------
(* Scales of the integer representation *)

BpScale == 100 * 100            \* 1.0 as an intent or capacity score
PdScale == 10 * 100             \* 1.0 as a default probability
LgdScale == 2 * 5               \* 1.0 as an LGD
AmountScale == 2 * 2            \* one rupee as an amount
ElScale == PdScale * LgdScale * AmountScale   \* one rupee of unrounded expected loss
PaiseScale == 10 * 10           \* one rupee of rounded expected loss

None == << >>
Some(v) == <<v>>

Max(a, b) == IF a >= b THEN a ELSE b
Min(a, b) == IF a <= b THEN a ELSE b

\* an amount of whole rupees
Rupees(x) == x * AmountScale

-----------------------------------------------------------------------------
(* Python floats.  The amounts, probabilities and losses of the program are
   IEEE 754 doubles.  The integer arithmetic of this module computes the exact
   value of each formula; a comparison or a rounding is decided by the exact
   value whenever that value is not the very threshold of the comparison or a
   tie of the rounding, since a double is within 2^-50 of the exact value,
   relatively, and the exact values are multiples of the scales above.  On a
   threshold or a tie the outcome is that of the double arithmetic, which the
   operators below compute.  A float expression of the program is written as
   a record, FloatMul(x, y) for x * y, and Float(x) is the double it
   evaluates to: [m, e, neg] standing for m * 2^e, or for -m * 2^e when neg is
   true, with m a natural number written in digits of base Limb, lowest
   first. *)

Mantissa == 53                  \* bits of the significand of a double
LimbBits == 14
Limb == 128 * 128               \* 2^LimbBits

RECURSIVE Pow2(_)
Pow2(n) == IF n = 0 THEN 1 ELSE 2 * Pow2(n - 1)

\* number of bits of n
RECURSIVE BitLength(_)
BitLength(n) == IF n = 0 THEN 0 ELSE 1 + BitLength(n \div 2)

RECURSIVE Limbs(_)
Limbs(n) == IF n = 0 THEN << >> ELSE <<n % Limb>> \o Limbs(n \div Limb)

RECURSIVE LimbsValue(_)
LimbsValue(a) == IF a = << >> THEN 0 ELSE Head(a) + Limb * LimbsValue(Tail(a))

\* without the zero digits at the high end
RECURSIVE Trim(_)
Trim(a) ==
    IF a = << >> THEN << >>
    ELSE IF a[Len(a)] = 0 THEN Trim(SubSeq(a, 1, Len(a) - 1)) ELSE a

LimbsBitLength(a) ==
    IF a = << >> THEN 0 ELSE LimbBits * (Len(a) - 1) + BitLength(a[Len(a)])

RECURSIVE AddLimbs(_, _, _)
AddLimbs(a, b, carry) ==
    IF a = << >> /\ b = << >>
    THEN IF carry = 0 THEN << >> ELSE <<carry>>
    ELSE LET x == IF a = << >> THEN 0 ELSE Head(a)
             y == IF b = << >> THEN 0 ELSE Head(b)
             s == x + y + carry
         IN  <<s % Limb>> \o AddLimbs(IF a = << >> THEN << >> ELSE Tail(a),
                                      IF b = << >> THEN << >> ELSE Tail(b),
                                      s \div Limb)

\* a - b for a >= b
RECURSIVE SubLimbs(_, _, _)
SubLimbs(a, b, borrow) ==
    IF a = << >> THEN << >>
    ELSE LET y == IF b = << >> THEN 0 ELSE Head(b)
             d == Head(a) - y - borrow
         IN  <<d % Limb>> \o SubLimbs(Tail(a), IF b = << >> THEN << >> ELSE Tail(b),
                                      IF d < 0 THEN 1 ELSE 0)

\* a < b, for a and b without high zeros
RECURSIVE LessLimbs(_, _)
LessLimbs(a, b) ==
    IF Len(a) # Len(b) THEN Len(a) < Len(b)
    ELSE IF a = << >> THEN FALSE
    ELSE IF a[Len(a)] # b[Len(b)] THEN a[Len(a)] < b[Len(b)]
    ELSE LessLimbs(Trim(SubSeq(a, 1, Len(a) - 1)), Trim(SubSeq(b, 1, Len(b) - 1)))

\* a * k + carry for 0 <= k <= Limb
RECURSIVE MulSmall(_, _, _)
MulSmall(a, k, carry) ==
    IF a = << >> THEN Limbs(carry)
    ELSE LET p == Head(a) * k + carry
         IN  <<p % Limb>> \o MulSmall(Tail(a), k, p \div Limb)

\* a * Limb^n
ShiftLimbs(a, n) == IF a = << >> THEN << >> ELSE [i \in 1..n |-> 0] \o a

RECURSIVE MulLimbs(_, _)
MulLimbs(a, b) ==
    IF a = << >> \/ b = << >> THEN << >>
    ELSE LET Sum(above) == AddLimbs(Trim(MulSmall(b, Head(a), 0)), above, 0)
         IN  Sum(ShiftLimbs(MulLimbs(Tail(a), b), 1))

\* a * 2^n
ShiftLeft(a, n) ==
    ShiftLimbs(Trim(MulSmall(a, Pow2(n % LimbBits), 0)), n \div LimbBits)

\* the quotient of a by k, for 0 < k <= Limb, given the remainder of the
\* digits above
RECURSIVE DivSmall(_, _, _)
DivSmall(a, k, above) ==
    IF a = << >> THEN << >>
    ELSE LET n == above * Limb + a[Len(a)]
         IN  DivSmall(SubSeq(a, 1, Len(a) - 1), k, n % k) \o <<n \div k>>

\* the largest digit q <= guess with q * b <= r
RECURSIVE LargestDigit(_, _, _)
LargestDigit(r, b, guess) ==
    IF LessLimbs(r, Trim(MulSmall(b, guess, 0))) THEN LargestDigit(r, b, guess - 1)
    ELSE guess

\* quotient and remainder of a by b > 0, for a and b without high zeros.  The
\* digit r \div b, for r < b * Limb: the two digits of r at the top digit of b,
\* divided by that digit, are the digit or above it, and above it by 2 at most
\* when the top digit of b is Limb \div 2 or more.
RECURSIVE DivModLimbs(_, _)
DivModLimbs(a, b) ==
    IF Len(a) < Len(b) THEN [q |-> << >>, r |-> a]
    ELSE LET Digit(high, r, digit) ==
                 [q |-> Trim(<<digit>> \o high.q),
                  r |-> Trim(SubLimbs(r, Trim(MulSmall(b, digit, 0)), 0))]
             Rest(high, r) ==
                 LET n == Len(b)
                     top == (IF Len(r) > n THEN r[n + 1] * Limb ELSE 0)
                            + (IF Len(r) >= n THEN r[n] ELSE 0)
                 IN  Digit(high, r, LargestDigit(r, b, Min(Limb - 1, top \div b[n])))
             Above(high) ==
                 IF high.r = << >> /\ Head(a) = 0
                 THEN [q |-> Trim(<<0>> \o high.q), r |-> << >>]
                 ELSE Rest(high, Trim(<<Head(a)>> \o high.r))
         IN  Above(DivModLimbs(Tail(a), b))

\* the natural number nearest to m / 2^drop, or to a value above it by less
\* than 2^-drop when more is true, for drop > 0; ties to even
RoundShift(m, drop, more) ==
    LET Nearest(kept, rest, half) ==
            IF \/ LessLimbs(half, rest)
               \/ rest = half /\ (more \/ (kept # << >> /\ Head(kept) % 2 = 1))
            THEN AddLimbs(kept, <<1>>, 0) ELSE kept
        Kept(kept) == Nearest(kept, Trim(SubLimbs(m, ShiftLeft(kept, drop), 0)),
                              ShiftLeft(<<1>>, drop - 1))
    IN  \* m \div 2^drop
        Kept(IF drop \div LimbBits >= Len(m) THEN << >>
             ELSE Trim(DivSmall(SubSeq(m, drop \div LimbBits + 1, Len(m)),
                                Pow2(drop % LimbBits), 0)))

\* the double nearest to the number v: v.m * 2^v.e, or a value above it by
\* less than 2^v.e when v.more is true, and the negative of that when v.neg is
\* true
RoundToDouble(v) ==
    IF v.m = << >> THEN [m |-> << >>, e |-> 0, neg |-> FALSE]
    ELSE IF LimbsBitLength(v.m) <= Mantissa THEN [m |-> v.m, e |-> v.e, neg |-> v.neg]
    ELSE LET Dropping(drop) ==
                 [m |-> RoundShift(v.m, drop, v.more), e |-> v.e + drop,
                  neg |-> v.neg]
         IN  Dropping(LimbsBitLength(v.m) - Mantissa)

\* a / b, to Mantissa + 2 bits and a flag for the remainder; both are shifted
\* by up bits, which brings the top digit of b to Limb \div 2 or more
ExactDiv(a, b) ==
    LET Quotient(dm, s) == [m |-> dm.q, e |-> a.e - b.e - s, more |-> dm.r # << >>,
                            neg |-> a.neg # b.neg]
        Scaled(s, up) == Quotient(DivModLimbs(ShiftLeft(a.m, s + up),
                                              ShiftLeft(b.m, up)), s)
    IN  Scaled(Max(0, Mantissa + 2 + LimbsBitLength(b.m) - LimbsBitLength(a.m)),
               (0 - LimbsBitLength(b.m)) % LimbBits)

\* a + b, or a - b when minus is true, exactly: the digits of both in units
\* of 2^e
ExactAdd(a, b, minus) ==
    LET Sum(x, y, e) ==
            IF a.neg = (b.neg # minus)
            THEN [m |-> AddLimbs(x, y, 0), e |-> e, more |-> FALSE, neg |-> a.neg]
            ELSE IF LessLimbs(x, y)
            THEN [m |-> Trim(SubLimbs(y, x, 0)), e |-> e, more |-> FALSE,
                  neg |-> ~a.neg]
            ELSE [m |-> Trim(SubLimbs(x, y, 0)), e |-> e, more |-> FALSE,
                  neg |-> a.neg]
        Aligned(e) == Sum(ShiftLeft(a.m, a.e - e), ShiftLeft(b.m, b.e - e), e)
    IN  Aligned(Min(a.e, b.e))

\* the double of an operation on the doubles a and b: a product or a quotient
\* of zero is zero, max(0, v) of a negative v is zero, min(a, b) is b when
\* b < a and max(a, b) is b when b > a, and a otherwise
Apply(op, a, b) ==
    IF a.m = << >> /\ op \in {"*", "/"} THEN a
    ELSE IF b.m = << >> /\ op = "*" THEN b
    ELSE IF op \in {"min", "max"}
    THEN LET Chosen(a_minus_b) ==
                 IF a_minus_b.m # << >> /\ a_minus_b.neg = (op = "max") THEN b ELSE a
         IN  Chosen(ExactAdd(a, b, TRUE))
    ELSE LET Clipped(v) ==
                 IF op = "max(0, -)" /\ v.neg THEN [v EXCEPT !.m = << >>] ELSE v
         IN  RoundToDouble(Clipped(
                 CASE op = "*" -> [m |-> MulLimbs(a.m, b.m), e |-> a.e + b.e,
                                   more |-> FALSE, neg |-> a.neg # b.neg]
                   [] op = "/" -> ExactDiv(a, b)
                   [] OTHER -> ExactAdd(a, b, op # "+")))

\* the expressions: an integer, x * y, x / y, x + y, x - y, max(0, x - y),
\* min(x, y), max(x, y)
FloatOfInt(n) == [op |-> "int", n |-> n]
FloatMul(x, y) == [op |-> "*", x |-> x, y |-> y]
FloatDiv(x, y) == [op |-> "/", x |-> x, y |-> y]
FloatAdd(x, y) == [op |-> "+", x |-> x, y |-> y]
FloatSub(x, y) == [op |-> "-", x |-> x, y |-> y]
FloatSubOrZero(x, y) == [op |-> "max(0, -)", x |-> x, y |-> y]
FloatMin(x, y) == [op |-> "min", x |-> x, y |-> y]
FloatMax(x, y) == [op |-> "max", x |-> x, y |-> y]

\* the double an expression evaluates to, each operation rounding its result
RECURSIVE Float(_)
Float(x) ==
    IF x.op = "int"
    THEN [m |-> Limbs(IF x.n < 0 THEN 0 - x.n ELSE x.n), e |-> 0, neg |-> x.n < 0]
    ELSE Apply(x.op, Float(x.x), Float(x.y))

\* x < y: the double of max(0, y - x) is positive
FloatLess(x, y) == Float(FloatSubOrZero(y, x)).m # << >>

\* the float of the decimal n / d: an amount is a / AmountScale, a default
\* probability pd / PdScale, an LGD lgd / LgdScale
FloatOfDecimal(n, d) == FloatDiv(FloatOfInt(n), FloatOfInt(d))

\* a score or a default probability that is the decimal n / d
Decimal(n, d) == [n |-> n, d |-> d, x |-> FloatOfDecimal(n, d)]

\* score >= threshold, the threshold in basis points.  score.d is BpScale or a
\* multiple of it.  When the exact values are equal the doubles decide, and
\* they are the same double when the score is that very decimal.
ScoreAtLeast(score, threshold) ==
    LET bound == threshold * (score.d \div BpScale)
    IN  IF score.n # bound THEN score.n > bound
        ELSE IF score.x = FloatOfDecimal(threshold, BpScale) THEN TRUE
        ELSE ~FloatLess(score.x, FloatOfDecimal(threshold, BpScale))

\* round(x, k) in units of 10^-k, scale = 10^k <= Limb, for an expression x.
\* When exact is true the exact counterpart of x times scale is n / d, or
\* above n / d by less than 1 / d when more is true (d > 0, and d even when
\* more is true), and it decides unless it is a tie.  On a tie, and when exact
\* is false, the double decides: the multiple nearest to its exact value,
\* ties to even.
RoundFloat(exact, n, d, more, x, scale) ==
    LET Magnitude(m, e) ==
            IF e >= 0 THEN LimbsValue(ShiftLeft(m, e))
            ELSE LimbsValue(RoundShift(m, 0 - e, FALSE))
        Value(v) ==
            IF v.m = << >> THEN 0
            ELSE (IF v.neg THEN 0 - 1 ELSE 1)
                 * Magnitude(Trim(MulSmall(v.m, scale, 0)), v.e)
    IN  IF ~exact \/ (2 * (n % d) = d /\ ~more) THEN Value(Float(x))
        ELSE IF 2 * (n % d) >= d THEN n \div d + 1
        ELSE n \div d


-----------------------------------------------------------------------------
(* agents/config.py *)

LGD == 7
MAX_EXPECTED_LOSS == 5000

RISK_CONSTRAINTS == [max_expected_loss |-> MAX_EXPECTED_LOSS, lgd |-> LGD]

\* the decision matrix used when config.yaml has no decision_matrix key
DEFAULT_DECISION_MATRIX ==
    [block_intent_threshold |-> 6000,
     approve_intent_threshold |-> 4000,
     approve_capacity_threshold |-> 7000]

\* decision matrices config.yaml can hold: the default one, a later block
\* threshold, a stricter capacity threshold, an earlier block threshold
ConfiguredMatrices ==
    { DEFAULT_DECISION_MATRIX,
      [DEFAULT_DECISION_MATRIX EXCEPT !.block_intent_threshold = 9000],
      [DEFAULT_DECISION_MATRIX EXCEPT !.approve_capacity_threshold = 9000],
      [DEFAULT_DECISION_MATRIX EXCEPT !.block_intent_threshold = 3000] }

MOCK_ML_SCORES ==
    [intent_score |-> Decimal(3200, BpScale), capacity_score |-> Decimal(5500, BpScale),
     pd_7d |-> Decimal(20, PdScale), pd_14d |-> Decimal(80, PdScale),
     pd_30d |-> Decimal(150, PdScale), risk_category |-> "yellow"]

GREEN_FLAG_SCORES ==
    [intent_score |-> Decimal(1500, BpScale), capacity_score |-> Decimal(8500, BpScale),
     pd_7d |-> Decimal(5, PdScale), pd_14d |-> Decimal(10, PdScale),
     pd_30d |-> Decimal(30, PdScale), risk_category |-> "green"]

RED_FLAG_SCORES ==
    [intent_score |-> Decimal(8500, BpScale), capacity_score |-> Decimal(2500, BpScale),
     pd_7d |-> Decimal(250, PdScale), pd_14d |-> Decimal(400, PdScale),
     pd_30d |-> Decimal(600, PdScale), risk_category |-> "red"]

MOCK_BOOKING_REQUEST ==
    [company_id |-> "IN-TRV-000567", company_name |-> "MediumRisk Agency",
     booking_amount |-> Rupees(50000),
     current_outstanding |-> Rupees(45000), credit_limit |-> Rupees(80000)]

GREEN_FLAG_BOOKING ==
    [company_id |-> "IN-TRV-000123", company_name |-> "LowRisk Travels",
     booking_amount |-> Rupees(30000),
     current_outstanding |-> Rupees(20000), credit_limit |-> Rupees(100000)]

RED_FLAG_BOOKING ==
    [company_id |-> "IN-TRV-000999", company_name |-> "HighRisk Agency",
     booking_amount |-> Rupees(100000),
     current_outstanding |-> Rupees(150000), credit_limit |-> Rupees(120000)]

-----------------------------------------------------------------------------
(* agents/tools.py *)

calculate_ead(outstanding, booking_amount, upfront) ==
    outstanding + booking_amount - upfront

\* the exact product, in ElScale units
calculate_expected_loss(pd, ead, lgd) == pd * ead * lgd

\* pd * ead * lgd as Python evaluates it on floats
FloatLoss(pd, ead, lgd) == FloatMul(FloatMul(pd, ead), lgd)

\* round(el, 2) in paise, for the float el whose exact counterpart, when exact
\* is true, is whole ElScale units, or above whole by less than one unit when
\* more is true
RoundEl(exact, whole, more, el) ==
    RoundFloat(exact, whole, ElScale \div PaiseScale, more, el, PaiseScale)

\* el <= max_el for the same el
ElWithin(exact, whole, more, el, max_el) ==
    IF ~exact \/ (whole = max_el * ElScale /\ ~more)
    THEN ~FloatLess(FloatOfInt(max_el), el)
    ELSE whole < max_el * ElScale

\* list.sort(key = friction_score): a stable insertion sort
RECURSIVE InsertByFriction(_, _)
InsertByFriction(opt, sorted) ==
    IF sorted = << >> THEN <<opt>>
    ELSE IF opt.friction_score < Head(sorted).friction_score
         THEN <<opt>> \o sorted
         ELSE <<Head(sorted)>> \o InsertByFriction(opt, Tail(sorted))

RECURSIVE SortByFriction(_)
SortByFriction(options) ==
    IF options = << >> THEN << >>
    ELSE InsertByFriction(options[Len(options)],
                          SortByFriction(SubSeq(options, 1, Len(options) - 1)))

\* Option A of generate_options: 7 days on the full exposure, no upfront.  The
\* exact loss is computed for a pd_7d in per mille.
ShortenedSettlementOption(exposure, booking_amount, pd_7d, lgd, max_el) ==
    LET exact == pd_7d.d = PdScale
        whole == calculate_expected_loss(pd_7d.n, exposure, lgd)
        el_7d == FloatLoss(pd_7d.x, FloatOfDecimal(exposure, AmountScale),
                           FloatOfDecimal(lgd, LgdScale))
    IN  IF ElWithin(exact, whole, FALSE, el_7d, max_el)
        THEN << [option_id |-> "A", type |-> "shortened_settlement",
                 settlement_days |-> 7, upfront_amount |-> 0,
                 approved_amount |-> booking_amount,
                 expected_loss |-> RoundEl(exact, whole, FALSE, el_7d),
                 friction_score |-> 40] >>
        ELSE << >>

\* Option B of generate_options: 30 days with the upfront that brings the loss
\* to max_el.  For a pd_30d in per mille the exact required_upfront =
\* exposure - max_el / (pd_30d * lgd) is the fraction Num / Den, negative when
\* the loss is below max_el; booking_amount * 1.2 is Whole12 + Tenths12 / 10.
UpfrontPaymentOption(exposure, booking_amount, pd_30d, lgd, max_el) ==
    IF pd_30d.n > 0
    THEN LET exact == pd_30d.d = PdScale
             Den == pd_30d.n * lgd
             Num == exposure * Den - max_el * ElScale
             required_upfront ==
                 FloatSubOrZero(FloatOfDecimal(exposure, AmountScale),
                                FloatDiv(FloatOfInt(max_el),
                                         FloatMul(pd_30d.x,
                                                  FloatOfDecimal(lgd, LgdScale))))
             \* 0 < required_upfront
             positive == IF ~exact \/ Num = 0
                         THEN FloatLess(FloatOfInt(0), required_upfront)
                         ELSE Num > 0
             Whole12 == (booking_amount * 12) \div 10
             Tenths12 == (booking_amount * 12) % 10
             Over == Num - Whole12 * Den
             \* required_upfront < booking_amount * 1.2
             below == IF exact /\ Over < 0 THEN TRUE
                      ELSE IF exact /\ Over >= Den THEN FALSE
                      ELSE IF ~exact \/ 10 * Over = Tenths12 * Den
                      THEN FloatLess(required_upfront,
                                     FloatMul(FloatOfDecimal(booking_amount, AmountScale),
                                              FloatOfDecimal(12, 10)))
                      ELSE 10 * Over < Tenths12 * Den
         IN  IF positive /\ below
             THEN LET \* the option, given whether min(required_upfront,
                      \* booking_amount) is booking_amount
                      Option(capped) ==
                          LET Capped == IF capped THEN booking_amount * Den ELSE Num
                              upfront == IF capped THEN FloatOfDecimal(booking_amount, AmountScale)
                                         ELSE required_upfront
                              \* pd_30d * (exposure - required_upfront) * lgd
                              el_upfront ==
                                  FloatLoss(pd_30d.x,
                                            FloatSub(FloatOfDecimal(exposure, AmountScale),
                                                     upfront),
                                            FloatOfDecimal(lgd, LgdScale))
                          IN  << [option_id |-> "B", type |-> "upfront_payment",
                                  settlement_days |-> 30,
                                  upfront_amount |->
                                      RoundFloat(exact, Capped, Den * AmountScale,
                                                 FALSE, upfront, 1) * AmountScale,
                                  approved_amount |-> booking_amount,
                                  expected_loss |->
                                      RoundEl(exact, exposure * Den - Capped, FALSE,
                                              el_upfront),
                                  friction_score |-> 70] >>
                  IN  Option(IF ~exact \/ Num = booking_amount * Den
                             THEN ~FloatLess(required_upfront,
                                             FloatOfDecimal(booking_amount, AmountScale))
                             ELSE Num > booking_amount * Den)
             ELSE << >>
    ELSE << >>

\* friction_score of option C: 8.0 + (1 - partial_pct) * 2, in tenths
PartialFriction(partial_pct) == 80 + (10 - partial_pct) * 2

\* One fraction of option C; partial_pct is in tenths.  The exact
\* partial_booking = booking_amount * partial_pct is Tenths / 10, and for a
\* pd_14d in per mille the exact loss of outstanding + partial_booking is whole
\* ElScale units, and a fraction of a unit when more is true.
PartialOption(partial_pct, outstanding, booking_amount, pd_14d, lgd, max_el) ==
    LET exact == pd_14d.d = PdScale
        Tenths == booking_amount * partial_pct
        P == pd_14d.n * lgd
        whole == P * (outstanding + Tenths \div 10) + (P * (Tenths % 10)) \div 10
        more == (P * (Tenths % 10)) % 10 # 0
        partial_booking == FloatMul(FloatOfDecimal(booking_amount, AmountScale),
                                    FloatOfDecimal(partial_pct, 10))
        partial_exposure == FloatAdd(FloatOfDecimal(outstanding, AmountScale),
                                     partial_booking)
        el_partial == FloatLoss(pd_14d.x, partial_exposure,
                                FloatOfDecimal(lgd, LgdScale))
    IN  [fits |-> ElWithin(exact, whole, more, el_partial, max_el),
         option |-> [option_id |-> "C", type |-> "partial_approval",
                     settlement_days |-> 14, upfront_amount |-> 0,
                     approved_amount |->
                         RoundFloat(TRUE, Tenths, 10 * AmountScale, FALSE,
                                    partial_booking, 1) * AmountScale,
                     expected_loss |-> RoundEl(exact, whole, more, el_partial),
                     friction_score |-> PartialFriction(partial_pct)]]

\* a loop over the fractions that has no break: one option per fitting fraction
RECURSIVE PartialApprovalWithoutBreak(_, _, _, _, _, _)
PartialApprovalWithoutBreak(pcts, outstanding, booking_amount, pd_14d, lgd, max_el) ==
    IF pcts = << >> THEN << >>
    ELSE LET rest == PartialApprovalWithoutBreak(Tail(pcts), outstanding,
                                                 booking_amount, pd_14d, lgd, max_el)
             Tried(partial) ==
                 IF partial.fits THEN <<partial.option>> \o rest ELSE rest
         IN  Tried(PartialOption(Head(pcts), outstanding, booking_amount,
                                 pd_14d, lgd, max_el))

\* Option C of generate_options: the first of 50%, 40%, 30%, 20% of the booking
\* whose 14-day loss clears max_el; pcts holds the fractions in tenths
RECURSIVE PartialApprovalOption(_, _, _, _, _, _)
PartialApprovalOption(pcts, outstanding, booking_amount, pd_14d, lgd, max_el) ==
    IF pcts = << >> THEN << >>
    ELSE LET Tried(partial) ==
                 IF partial.fits THEN <<partial.option>>
                 ELSE PartialApprovalOption(Tail(pcts), outstanding, booking_amount,
                                            pd_14d, lgd, max_el)
         IN  Tried(PartialOption(Head(pcts), outstanding, booking_amount,
                                 pd_14d, lgd, max_el))

PartialPcts == <<5, 4, 3, 2>>

generate_options(exposure, outstanding, booking_amount, pd_7d, pd_14d, pd_30d, lgd, max_el) ==
    LET options ==
            ShortenedSettlementOption(exposure, booking_amount, pd_7d, lgd, max_el)
         \o UpfrontPaymentOption(exposure, booking_amount, pd_30d, lgd, max_el)
         \o PartialApprovalOption(PartialPcts, outstanding, booking_amount,
                                  pd_14d, lgd, max_el)
        \* options[:3]
        FirstThree(sorted) == SubSeq(sorted, 1, Min(3, Len(sorted)))
    IN  FirstThree(SortByFriction(options))

\* a validator that does not look at the expected loss
OptionViolationsWithoutLoss(opt, max_el) ==
       (IF opt.upfront_amount > opt.approved_amount
        THEN << [option_id |-> opt.option_id, check |-> "upfront_amount"] >>
        ELSE << >>)
    \o (IF ~(7 <= opt.settlement_days /\ opt.settlement_days <= 90)
        THEN << [option_id |-> opt.option_id, check |-> "settlement_days"] >>
        ELSE << >>)

\* a validator that tests the upfront amount before the expected loss
UpfrontCheckedFirst(opt, max_el) ==
       (IF opt.upfront_amount > opt.approved_amount
        THEN << [option_id |-> opt.option_id, check |-> "upfront_amount"] >>
        ELSE << >>)
    \o (IF opt.expected_loss > max_el * PaiseScale
        THEN << [option_id |-> opt.option_id, check |-> "expected_loss"] >>
        ELSE << >>)
    \o (IF ~(7 <= opt.settlement_days /\ opt.settlement_days <= 90)
        THEN << [option_id |-> opt.option_id, check |-> "settlement_days"] >>
        ELSE << >>)

\* the checks validate_compliance makes on one option, in its order
OptionViolations(opt, max_el) ==
       (IF opt.expected_loss > max_el * PaiseScale
        THEN << [option_id |-> opt.option_id, check |-> "expected_loss"] >>
        ELSE << >>)
    \o (IF opt.upfront_amount > opt.approved_amount
        THEN << [option_id |-> opt.option_id, check |-> "upfront_amount"] >>
        ELSE << >>)
    \o (IF ~(7 <= opt.settlement_days /\ opt.settlement_days <= 90)
        THEN << [option_id |-> opt.option_id, check |-> "settlement_days"] >>
        ELSE << >>)

RECURSIVE AllViolations(_, _)
AllViolations(options, max_el) ==
    IF options = << >> THEN << >>
    ELSE OptionViolations(Head(options), max_el)
         \o AllViolations(Tail(options), max_el)

validate_compliance(options, max_el) ==
    LET violations == AllViolations(options, max_el)
    IN  [compliant |-> Len(violations) = 0,
         violations |-> violations,
         options_count |-> Len(options)]

-----------------------------------------------------------------------------
(* agents/model_loader.py *)

\* Rows of dataset/dataset1.csv by company_id.  credit_utilization,
\* on_time_payment_rate, cancellation_rate and refund_request_rate are in
\* percent, chargeback_rate in basis points.
Dataset1 ==
    [id \in {"IN-TRV-000001", "IN-TRV-000002", "IN-TRV-000003", "IN-TRV-000004",
             "IN-TRV-000005", "IN-TRV-000006", "IN-TRV-000007", "IN-TRV-000008"} |->
        CASE id = "IN-TRV-000001" ->
                [credit_utilization |-> 10, on_time_payment_rate |-> 100,
                 chargeback_rate |-> 0, dispute_count_90d |-> 0, fraud_flag |-> 0,
                 cancellation_rate |-> 4, refund_request_rate |-> 4]
          [] id = "IN-TRV-000002" ->
                [credit_utilization |-> 50, on_time_payment_rate |-> 80,
                 chargeback_rate |-> 200, dispute_count_90d |-> 2, fraud_flag |-> 0,
                 cancellation_rate |-> 20, refund_request_rate |-> 8]
          [] id = "IN-TRV-000003" ->
                [credit_utilization |-> 50, on_time_payment_rate |-> 60,
                 chargeback_rate |-> 800, dispute_count_90d |-> 5, fraud_flag |-> 1,
                 cancellation_rate |-> 60, refund_request_rate |-> 40]
          [] id = "IN-TRV-000004" ->
                [credit_utilization |-> 90, on_time_payment_rate |-> 80,
                 chargeback_rate |-> 400, dispute_count_90d |-> 1, fraud_flag |-> 0,
                 cancellation_rate |-> 12, refund_request_rate |-> 12]
          [] id = "IN-TRV-000005" ->
                [credit_utilization |-> 50, on_time_payment_rate |-> 100,
                 chargeback_rate |-> 0, dispute_count_90d |-> 0, fraud_flag |-> 1,
                 cancellation_rate |-> 4, refund_request_rate |-> 4]
          [] id = "IN-TRV-000006" ->
                [credit_utilization |-> 50, on_time_payment_rate |-> 100,
                 chargeback_rate |-> 800, dispute_count_90d |-> 0, fraud_flag |-> 0,
                 cancellation_rate |-> 4, refund_request_rate |-> 4]
          [] id = "IN-TRV-000007" ->
                [credit_utilization |-> 10, on_time_payment_rate |-> 100,
                 chargeback_rate |-> 800, dispute_count_90d |-> 0, fraud_flag |-> 1,
                 cancellation_rate |-> 0, refund_request_rate |-> 0]
          [] id = "IN-TRV-000008" ->
                [credit_utilization |-> 45, on_time_payment_rate |-> 100,
                 chargeback_rate |-> 0, dispute_count_90d |-> 0, fraud_flag |-> 0,
                 cancellation_rate |-> 4, refund_request_rate |-> 4]]

\* max(0.1, min(0.95, (1 - credit_util) * on_time_rate)): exactly so many
\* basis points, and the double the floats give
_estimate_capacity_score(company_row) ==
    LET credit_util == company_row.credit_utilization
        on_time_rate == company_row.on_time_payment_rate
        capacity_score ==
            FloatMul(FloatSub(FloatOfInt(1), FloatOfDecimal(credit_util, 100)),
                     FloatOfDecimal(on_time_rate, 100))
    IN  [n |-> Max(1000, Min(9500, (100 - credit_util) * on_time_rate)),
         d |-> BpScale,
         x |-> FloatMax(FloatOfDecimal(1, 10),
                        FloatMin(FloatOfDecimal(95, 100), capacity_score))]

\* max(0.01, min(0.99, intent_score)) of the weighted fraud signals: exactly so
\* many millionths, and the double the sum of the floats gives, added in the
\* order of the code
_estimate_intent_score(company_row) ==
    LET chargeback_rate == company_row.chargeback_rate
        dispute_count == company_row.dispute_count_90d
        cancellation_rate == company_row.cancellation_rate
        refund_request_rate == company_row.refund_request_rate
        Quarter(rate) == FloatMin(FloatOfDecimal(1, 10),
                                  FloatMul(FloatOfDecimal(rate, 100),
                                           FloatOfDecimal(25, 100)))
        intent_score ==
            FloatAdd(
                FloatAdd(
                    FloatAdd(
                        FloatAdd(IF company_row.fraud_flag = 1
                                 THEN FloatAdd(FloatOfInt(0), FloatOfDecimal(6, 10))
                                 ELSE FloatOfInt(0),
                                 FloatMin(FloatOfDecimal(3, 10),
                                          FloatMul(FloatOfDecimal(chargeback_rate, BpScale),
                                                   FloatOfDecimal(375, 100)))),
                        FloatMin(FloatOfDecimal(15, 100),
                                 FloatMul(FloatOfInt(dispute_count),
                                          FloatOfDecimal(375, BpScale)))),
                    Quarter(cancellation_rate)),
                Quarter(refund_request_rate))
    IN  [n |-> Max(10000,
                   Min(990000,
                         (IF company_row.fraud_flag = 1 THEN 600000 ELSE 0)
                       + Min(300000, chargeback_rate * 375)
                       + Min(150000, dispute_count * 37500)
                       + Min(100000, cancellation_rate * 2500)
                       + Min(100000, refund_request_rate * 2500))),
         d |-> 100 * BpScale,
         x |-> FloatMax(FloatOfDecimal(1, 100),
                        FloatMin(FloatOfDecimal(99, 100), intent_score))]

\* a gate that tests the approval thresholds before the block threshold
GreenBeforeRed(intent_score, capacity_score) ==
    IF /\ ~ScoreAtLeast(intent_score, DECISION_MATRIX.approve_intent_threshold)
       /\ ScoreAtLeast(capacity_score, DECISION_MATRIX.approve_capacity_threshold)
    THEN "green"
    ELSE IF ScoreAtLeast(intent_score, DECISION_MATRIX.block_intent_threshold)
         THEN "red"
         ELSE "yellow"

_categorize_risk(intent_score, capacity_score) ==
    IF ScoreAtLeast(intent_score, DECISION_MATRIX.block_intent_threshold)
    THEN "red"
    ELSE IF /\ ~ScoreAtLeast(intent_score, DECISION_MATRIX.approve_intent_threshold)
            /\ ScoreAtLeast(capacity_score, DECISION_MATRIX.approve_capacity_threshold)
         THEN "green"
         ELSE "yellow"

\* the row is found: scores from the features, category from the risk gate.
\* pd_7d = min(0.50, max(0.001, (1 - capacity) * 0.03)), pd_14d = min(0.60,
\* pd_7d * 3), pd_30d = min(0.70, pd_7d * 6).  The exact values are whole
\* millionths; they are given per mille when they are whole per mille.
_dataset_based_score(company_row) ==
    LET capacity_score == _estimate_capacity_score(company_row)
        intent_score == _estimate_intent_score(company_row)
        Millionths == Min(500000, Max(1000, (BpScale - capacity_score.n) * 3))
        per_mille == Millionths % 1000 = 0
        Value(millionths, x) ==
            [n |-> IF per_mille THEN millionths \div 1000 ELSE millionths,
             d |-> IF per_mille THEN PdScale ELSE 1000 * PdScale,
             x |-> x]
        pd_7d == FloatMin(FloatOfDecimal(50, 100),
                          FloatMax(FloatOfDecimal(1, 1000),
                                   FloatMul(FloatSub(FloatOfInt(1), capacity_score.x),
                                            FloatOfDecimal(3, 100))))
        pd_14d == FloatMin(FloatOfDecimal(60, 100), FloatMul(pd_7d, FloatOfInt(3)))
        pd_30d == FloatMin(FloatOfDecimal(70, 100), FloatMul(pd_7d, FloatOfInt(6)))
    IN  [intent_score |-> intent_score, capacity_score |-> capacity_score,
         pd_7d |-> Value(Millionths, pd_7d),
         pd_14d |-> Value(Min(600000, Millionths * 3), pd_14d),
         pd_30d |-> Value(Min(700000, Millionths * 6), pd_30d),
         risk_category |-> _categorize_risk(intent_score, capacity_score)]

\* base_scores.copy() plus company_data and external_data, which no decision reads
_enrich_scores(base_scores, company_id) == base_scores

\* _dataset_based_score raises ValueError for a company the dataset lacks; the
\* caller catches it and falls back to the mock scores
score_company(company_id) ==
    IF company_id = "IN-TRV-000123"
    THEN _enrich_scores(GREEN_FLAG_SCORES, company_id)
    ELSE IF company_id = "IN-TRV-000999"
    THEN _enrich_scores(RED_FLAG_SCORES, company_id)
    ELSE IF dataset1 # None /\ company_id \in DOMAIN dataset1[1]
    THEN _dataset_based_score(dataset1[1][company_id])
    ELSE _enrich_scores(MOCK_ML_SCORES, company_id)

-----------------------------------------------------------------------------
(* agents/financial_analyst.py, terms_crafter.py, monitor_agent.py *)

analyze(booking_request, ml_scores) ==
    LET outstanding == booking_request.current_outstanding
        booking_amount == booking_request.booking_amount
        total_exposure == calculate_ead(outstanding, booking_amount, 0)
        exact == ml_scores.pd_30d.d = PdScale
        whole == calculate_expected_loss(ml_scores.pd_30d.n, total_exposure, LGD)
        baseline_el_30d == FloatLoss(ml_scores.pd_30d.x,
                                     FloatOfDecimal(total_exposure, AmountScale),
                                     FloatOfDecimal(LGD, LgdScale))
        \* max(0, baseline_el_30d - MAX_EXPECTED_LOSS)
        exceeds_by == FloatSubOrZero(baseline_el_30d, FloatOfInt(MAX_EXPECTED_LOSS))
    IN  [total_exposure |-> total_exposure,
         baseline_el_30d |-> RoundEl(exact, whole, FALSE, baseline_el_30d),
         exceeds_risk_appetite |-> ~ElWithin(exact, whole, FALSE, baseline_el_30d,
                                             MAX_EXPECTED_LOSS),
         exceeds_by |-> RoundEl(exact, Max(0, whole - MAX_EXPECTED_LOSS * ElScale),
                                FALSE, exceeds_by),
         breakdown |-> [outstanding |-> outstanding,
                        booking_amount |-> booking_amount]]

option_ids == <<"A", "B", "C">>

\* a Terms Crafter that returns the options with the ids generate_options gave
CraftKeepsGeneratedIds(financial_analysis, ml_scores, risk_constraints) ==
    generate_options(financial_analysis.total_exposure,
                     financial_analysis.breakdown.outstanding,
                     financial_analysis.breakdown.booking_amount,
                     ml_scores.pd_7d, ml_scores.pd_14d, ml_scores.pd_30d,
                     risk_constraints.lgd, risk_constraints.max_expected_loss)

craft_options(financial_analysis, ml_scores, risk_constraints) ==
    LET \* option['option_id'] = option_ids[i] for the options the ids reach
        Labelled(options) ==
            [i \in 1..Len(options) |->
                IF i <= Len(option_ids)
                THEN [options[i] EXCEPT !.option_id = option_ids[i]]
                ELSE options[i]]
    IN  Labelled(generate_options(financial_analysis.total_exposure,
                                  financial_analysis.breakdown.outstanding,
                                  financial_analysis.breakdown.booking_amount,
                                  ml_scores.pd_7d, ml_scores.pd_14d, ml_scores.pd_30d,
                                  risk_constraints.lgd,
                                  risk_constraints.max_expected_loss))

\* a monitor that reports every list as compliant
ValidateNothing(options, risk_constraints) ==
    [compliant |-> TRUE, violations |-> << >>, options_count |-> Len(options)]

validate(options, risk_constraints) ==
    validate_compliance(options, risk_constraints.max_expected_loss)

-----------------------------------------------------------------------------
(* agents/meta_agent.py: process_booking_request *)

MlScores(scoring_result) ==
    [intent_score |-> scoring_result.intent_score,
     capacity_score |-> scoring_result.capacity_score,
     pd_7d |-> scoring_result.pd_7d,
     pd_14d |-> scoring_result.pd_14d,
     pd_30d |-> scoring_result.pd_30d]

\* What CommsAgent.compose_message returns: the Narrator's JSON object when it
\* parses and has a 'body' (with or without a 'subject'), the template message
\* of _fallback_message otherwise.
CommsMessages == {"narrated", "narrated_without_subject", "fallback"}

\* the message of an approval: the amount in whole rupees, as the format ,.0f
\* rounds it (the sign of a negative amount stays when the digits are 0), and
\* the name of the company
ApprovalMessage(booking_request) ==
    LET rounded == RoundFloat(TRUE, booking_request.booking_amount, AmountScale,
                              FALSE,
                              FloatOfDecimal(booking_request.booking_amount,
                                             AmountScale),
                              1)
    IN  [text |-> "auto_approved",
         sign |-> IF booking_request.booking_amount < 0 THEN "-" ELSE "",
         digits |-> IF rounded < 0 THEN -rounded ELSE rounded,
         company_name |-> booking_request.company_name]

\* A decision record.  Keys a flow does not set are None; invoked names the
\* agents the flow called; raised tells that the flow ended with an exception,
\* which the endpoint turns into an HTTP 500 response without a decision.

\* an approval that runs the financial analysis first
ApproveAfterAnalysis(booking_request, ml_scores) ==
    [decision |-> "APPROVED", risk_category |-> "green",
     ml_scores |-> ml_scores, booking_request |-> booking_request,
     approved_amount |-> Some(booking_request.booking_amount),
     settlement_days |-> Some(30),
     reason |-> None, violations |-> None,
     financial_analysis |-> Some(analyze(booking_request, ml_scores)),
     options |-> None, validation |-> None,
     message |-> Some(ApprovalMessage(booking_request)),
     invoked |-> {"financial_analyst"}, raised |-> FALSE]

_auto_approve_flow(booking_request, ml_scores) ==
    [decision |-> "APPROVED", risk_category |-> "green",
     ml_scores |-> ml_scores, booking_request |-> booking_request,
     approved_amount |-> Some(booking_request.booking_amount),
     settlement_days |-> Some(30),
     reason |-> None, violations |-> None, financial_analysis |-> None,
     options |-> None, validation |-> None,
     message |-> Some(ApprovalMessage(booking_request)),
     invoked |-> {}, raised |-> FALSE]

\* reason joins the parts with ' | ', the message joins them with ', ' after
\* the name of the company
_block_flow(booking_request, ml_scores, scoring_result) ==
    LET reason ==
               (IF ScoreAtLeast(ml_scores.intent_score, 6000)
                THEN <<"High intent score">> ELSE << >>)
            \o (IF ~ScoreAtLeast(ml_scores.capacity_score, 4000)
                THEN <<"Low capacity score">> ELSE << >>)
    IN  [decision |-> "BLOCKED", risk_category |-> "red",
         ml_scores |-> ml_scores, booking_request |-> booking_request,
         approved_amount |-> None, settlement_days |-> None,
         reason |-> Some(reason), violations |-> None, financial_analysis |-> None,
         options |-> None, validation |-> None,
         message |-> Some([text |-> "blocked", reason |-> reason,
                           company_name |-> booking_request.company_name]),
         invoked |-> {}, raised |-> FALSE]

\* a negotiation flow without the test for an empty list of options
FlowWithoutEmptyTest(booking_request, ml_scores, scoring_result, message) ==
    LET base == [decision |-> "BLOCKED", risk_category |-> "yellow",
                 ml_scores |-> ml_scores, booking_request |-> booking_request,
                 approved_amount |-> None, settlement_days |-> None,
                 reason |-> None, violations |-> None, financial_analysis |-> None,
                 options |-> None, validation |-> None, message |-> None,
                 invoked |-> {}, raised |-> FALSE]
        Validated(financial_analysis, options, validation) ==
            IF ~validation.compliant
            THEN [base EXCEPT
                    !.reason = Some(<<"Options failed validation">>),
                    !.violations = Some(validation.violations),
                    !.options = Some(options),
                    !.validation = Some(validation),
                    !.invoked = {"financial_analyst", "risk_ai", "terms_crafter",
                                 "monitor"}]
            ELSE [base EXCEPT
                    !.decision = "NEGOTIATE",
                    !.message = Some(message),
                    !.financial_analysis = Some(financial_analysis),
                    !.options = Some(options),
                    !.validation = Some(validation),
                    !.invoked = {"financial_analyst", "risk_ai", "terms_crafter",
                                 "monitor", "comms"}]
        Crafted(financial_analysis, options) ==
            Validated(financial_analysis, options, validate(options, RISK_CONSTRAINTS))
        Analyzed(financial_analysis) ==
            Crafted(financial_analysis,
                    craft_options(financial_analysis, ml_scores, RISK_CONSTRAINTS))
    IN  Analyzed(analyze(booking_request, ml_scores))

_negotiation_flow(booking_request, ml_scores, scoring_result, message) ==
    LET base == [decision |-> "BLOCKED", risk_category |-> "yellow",
                 ml_scores |-> ml_scores, booking_request |-> booking_request,
                 approved_amount |-> None, settlement_days |-> None,
                 reason |-> None, violations |-> None, financial_analysis |-> None,
                 options |-> None, validation |-> None, message |-> None,
                 invoked |-> {}, raised |-> FALSE]
        \* the steps after monitor.validate has returned
        Validated(financial_analysis, options, validation) ==
            IF ~validation.compliant
            THEN [base EXCEPT
                    !.reason = Some(<<"Options failed validation">>),
                    !.violations = Some(validation.violations),
                    !.options = Some(options),
                    !.validation = Some(validation),
                    !.invoked = {"financial_analyst", "risk_ai", "terms_crafter",
                                 "monitor"}]
            ELSE IF message = "narrated_without_subject"
            THEN \* the log line after compose_message reads message['subject']
                 [base EXCEPT
                    !.decision = "HTTP 500",
                    !.invoked = {"financial_analyst", "risk_ai", "terms_crafter",
                                 "monitor", "comms"},
                    !.raised = TRUE]
            ELSE [base EXCEPT
                    !.decision = "NEGOTIATE",
                    !.message = Some(message),
                    !.financial_analysis = Some(financial_analysis),
                    !.options = Some(options),
                    !.validation = Some(validation),
                    !.invoked = {"financial_analyst", "risk_ai", "terms_crafter",
                                 "monitor", "comms"}]
        \* the steps after terms_crafter.craft_options has returned
        Crafted(financial_analysis, options) ==
            IF options = << >>
            THEN [base EXCEPT
                    !.reason = Some(<<"No options satisfy risk constraints">>),
                    !.financial_analysis = Some(financial_analysis),
                    !.invoked = {"financial_analyst", "risk_ai", "terms_crafter"}]
            ELSE Validated(financial_analysis, options,
                           validate(options, RISK_CONSTRAINTS))
        \* the steps after financial_analyst.analyze has returned
        Analyzed(financial_analysis) ==
            Crafted(financial_analysis,
                    craft_options(financial_analysis, ml_scores, RISK_CONSTRAINTS))
    IN  Analyzed(analyze(booking_request, ml_scores))

process_booking_request(booking_request, message) ==
    LET scoring_result == score_company(booking_request.company_id)
        ml_scores == MlScores(scoring_result)
        risk_category == scoring_result.risk_category
    IN  IF risk_category = "green"
        THEN _auto_approve_flow(booking_request, ml_scores)
        ELSE IF risk_category = "red"
        THEN _block_flow(booking_request, ml_scores, scoring_result)
        ELSE _negotiation_flow(booking_request, ml_scores, scoring_result, message)

\* demo.py, test_5_edge_case
edge_booking ==
    [company_id |-> "IN-TRV-999999", company_name |-> "HighRisk Travels Pvt Ltd",
     booking_amount |-> Rupees(50000),
     current_outstanding |-> Rupees(80000), credit_limit |-> Rupees(100000)]

\* requests with amounts no booking has; BookingRequest declares the three
\* amounts as float and has no validator, so the endpoint passes them on
MalformedBookings ==
    { [GREEN_FLAG_BOOKING EXCEPT !.booking_amount = 0],
      [GREEN_FLAG_BOOKING EXCEPT !.booking_amount = 0 - Rupees(30000)],
      [GREEN_FLAG_BOOKING EXCEPT !.current_outstanding = 0 - Rupees(20000)],
      [RED_FLAG_BOOKING EXCEPT !.credit_limit = 0 - Rupees(120000)],
      [MOCK_BOOKING_REQUEST EXCEPT !.booking_amount = 0] }

\* the booking requests the model submits: those of config.py and demo.py,
\* further amounts for unknown companies and for the companies of the dataset,
\* and malformed ones
BookingRequests ==
    { MOCK_BOOKING_REQUEST, GREEN_FLAG_BOOKING, RED_FLAG_BOOKING, edge_booking }
    \cup MalformedBookings
    \cup
    { [company_id |-> id, company_name |-> "Agency", booking_amount |-> b,
       current_outstanding |-> o, credit_limit |-> Rupees(100000)] :
        id \in {"IN-TRV-000567", "IN-TRV-000002", "IN-TRV-000004"},
        b \in {Rupees(30000), Rupees(100000)},
        o \in {0, Rupees(50000), Rupees(200000)} }
    \cup
    { [company_id |-> id, company_name |-> "Agency",
       booking_amount |-> Rupees(30000),
       current_outstanding |-> Rupees(20000), credit_limit |-> Rupees(100000)] :
        id \in {"IN-TRV-000001", "IN-TRV-000003", "IN-TRV-000005", "IN-TRV-000006",
                "IN-TRV-000007", "IN-TRV-000008"} }

-----------------------------------------------------------------------------
(* agents/negotiation_agent.py *)

\* The conversations of the model: each is one customer negotiating one
\* booking, with the scores its requests carry.
Conversations == {"c1", "c2"}

ConversationBooking(conv) ==
    IF conv = "c1" THEN MOCK_BOOKING_REQUEST
    ELSE [company_id |-> "IN-TRV-000004", company_name |-> "Agency",
          booking_amount |-> Rupees(30000),
          current_outstanding |-> Rupees(50000), credit_limit |-> Rupees(100000)]

ConversationScores(conv) ==
    IF conv = "c1" THEN MlScores(MOCK_ML_SCORES)
    ELSE [intent_score |-> Decimal(2475, BpScale),
          capacity_score |-> Decimal(1000, BpScale),
          pd_7d |-> Decimal(27, PdScale), pd_14d |-> Decimal(81, PdScale),
          pd_30d |-> Decimal(162, PdScale)]

\* The lists of initial options a request can carry (NegotiationRequest takes
\* any list of JSON objects): none, the options of a decision, an object
\* with an option_id only, an option whose
\* upfront_amount is null.  An option is the record of the keys the object
\* has; upfront_amount and expected_loss are Some(number), None for null.
InitialOptionLists ==
    LET option == [option_id |-> "A", settlement_days |-> 7,
                   upfront_amount |-> Some(0), expected_loss |-> Some(93100)]
    IN  { << >>,
          <<option, [option EXCEPT !.option_id = "B", !.settlement_days = 30,
                                   !.upfront_amount = Some(Rupees(23571))]>>,
          <<[option_id |-> "A"]>>,
          <<option, [option EXCEPT !.upfront_amount = None]>> }

\* What the Narrator (self.llm) does with one prompt.
\*   raises       llm.invoke raises (network error, timeout of the client)
\*   unparseable  the text is not JSON: json.loads raises
\*   not_object   the JSON is a list, a string, a number or null
\*   no_response  the JSON is an object without the key 'response'
\*   object       the JSON is an object with 'response'; offer, expected_loss
\*                (in paise) and escalate are its other values, None for null
NarratorFailure(kind) ==
    [kind |-> kind, offer |-> None, expected_loss |-> None, escalate |-> FALSE]

NarratorObject(offer, expected_loss, escalate) ==
    [kind |-> "object", offer |-> offer, expected_loss |-> expected_loss,
     escalate |-> escalate]

Offer(upfront, settlement_days, approved_amount) ==
    [upfront |-> upfront, settlement_days |-> settlement_days,
     approved_amount |-> approved_amount]

NarratorReplies(booking_request) ==
    LET b == booking_request.booking_amount
    IN  { NarratorFailure(k) :
            k \in {"raises", "unparseable", "not_object", "no_response"} }
        \cup
        { NarratorObject(Some(Offer(0, 10, b)), Some(300000), FALSE),
          NarratorObject(Some(Offer(0, 120, b)), Some(300000), FALSE),
          NarratorObject(Some(Offer(2 * b, 10, b)), Some(0), FALSE),
          NarratorObject(Some(Offer(0, 30, b)), Some(997500), FALSE),
          NarratorObject(Some(Offer(0, 10, b)), None, FALSE),
          NarratorObject(Some(Offer(0, 10, b)), Some(300000), TRUE),
          NarratorObject(None, Some(0), FALSE),
          NarratorObject(None, Some(0), TRUE),
          NarratorObject(None, None, TRUE) }

\* the escalation result of the except branch
EscalationResult ==
    [response |-> "escalation", offer |-> None, expected_loss |-> None,
     escalate |-> TRUE]

\* _simple_offer divides by pd_10d * LGD
SimpleOfferRaises(ml_scores) == ml_scores.pd_7d.n + ml_scores.pd_14d.n = 0

\* 10-day settlement.  For default probabilities in per mille the exact
\* pd_10d = (pd_7d + pd_14d) / 2 is kept doubled, so Den is
\* 2 * pd_10d * LGD, the exact required_upfront = exposure - max_el /
\* (pd_10d * LGD) is Num / Den, booking_amount * 0.5 is Half / (2 * Den), the
\* exact clamped upfront is Clamped / (2 * Den), and the exact loss is whole
\* units of 1 / (2 * ElScale), and half a unit more when Clamped is odd.
_simple_offer(booking_request, ml_scores, risk_constraints) ==
    LET outstanding == booking_request.current_outstanding
        booking_amount == booking_request.booking_amount
        settlement_days == 10
        max_el == risk_constraints.max_expected_loss
        exposure == outstanding + booking_amount
        exact == ml_scores.pd_7d.d = PdScale /\ ml_scores.pd_14d.d = PdScale
        Den == (ml_scores.pd_7d.n + ml_scores.pd_14d.n) * LGD
        Num == exposure * Den - max_el * 2 * ElScale
        Half == booking_amount * Den
        pd_10d == FloatDiv(FloatAdd(ml_scores.pd_7d.x, ml_scores.pd_14d.x),
                           FloatOfInt(2))
        required_upfront ==
            FloatSub(FloatOfDecimal(exposure, AmountScale),
                     FloatDiv(FloatOfInt(max_el),
                              FloatMul(pd_10d, FloatOfDecimal(LGD, LgdScale))))
        half == FloatMul(FloatOfDecimal(booking_amount, AmountScale), FloatOfDecimal(5, 10))
        \* min(booking_amount * 0.5, required_upfront) is booking_amount * 0.5
        halved == IF ~exact \/ (Half % 2 = 0 /\ Num = Half \div 2)
                  THEN ~FloatLess(required_upfront, half)
                  ELSE Num > Half \div 2
        \* max(0, min(...))
        Clamped == IF halved THEN Max(0, Half)
                   ELSE IF Num <= 0 THEN 0 ELSE 2 * Num
        clamped == FloatSubOrZero(IF halved THEN half ELSE required_upfront,
                                  FloatOfInt(0))
        \* pd_10d * (exposure - required_upfront) * LGD
        whole == exposure * Den - (Clamped + 1) \div 2
        el == FloatLoss(pd_10d, FloatSub(FloatOfDecimal(exposure, AmountScale), clamped),
                        FloatOfDecimal(LGD, LgdScale))
    IN  [response |-> "simple_offer",
         offer |-> Some(Offer(RoundFloat(exact, Clamped, 2 * Den * AmountScale,
                                         FALSE, clamped, 1) * AmountScale,
                              settlement_days, booking_amount)),
         expected_loss |-> Some(RoundFloat(exact, whole,
                                           (2 * ElScale) \div PaiseScale,
                                           Clamped % 2 = 1, el, PaiseScale)),
         escalate |-> FALSE]

\* the fields of a template whose example line "EL = ..." has its braces doubled
EscapedPlaceholders ==
    {"company_name", "booking_amount", "outstanding", "exposure", "max_el", "lgd",
     "pd_7d", "pd_14d", "pd_30d", "initial_options", "chat_history",
     "user_message", "round_number"}

\* The replacement fields of self.prompt_template ({{ and }} are literal
\* braces) and the keyword arguments negotiate passes to its format call
PromptPlaceholders ==
    {"company_name", "booking_amount", "outstanding", "exposure", "max_el", "lgd",
     "pd_7d", "pd_14d", "pd_30d", "initial_options", "chat_history",
     "user_message", "round_number", "pd", "ead"}

PromptArguments ==
    {"company_name", "booking_amount", "outstanding", "exposure", "max_el", "lgd",
     "pd_7d", "pd_14d", "pd_30d", "initial_options", "chat_history",
     "user_message", "round_number"}

\* str.format raises KeyError for a field that has no argument
PromptFormatRaises == ~(PromptPlaceholders \subseteq PromptArguments)

\* options_text is built before the try block: opt['option_id'],
\* opt['settlement_days'], opt['upfront_amount'] with ,.0f and
\* opt['expected_loss'] with ,.2f of every option.  A missing key raises
\* KeyError and a null under a number format raises TypeError.
OptionsTextRaises(initial_options) ==
    \E i \in 1..Len(initial_options) :
        LET opt == initial_options[i]
        IN  \/ ~({"option_id", "settlement_days", "upfront_amount",
                  "expected_loss"} \subseteq DOMAIN opt)
            \/ opt.upfront_amount = None
            \/ opt.expected_loss = None

Turn(role, conv) == [role |-> role, conv |-> conv]

\* One call of NegotiationAgent.negotiate for a message of conversation conv.
\* history is the transcript after the call, invoked tells that self.llm was
\* called, raised that the call ended with an exception, result is the returned
\* dict (None when it raised).
negotiate(conv, round_number, booking_request, ml_scores, initial_options, risk_constraints, reply) ==
    LET \* the try block formats the prompt, invokes the Narrator, parses its
        \* text, appends the customer turn, evaluates result['response'],
        \* appends the agent turn, and logs result.get('expected_loss', 0)
        \* with the format ,.2f; any exception leads to the except branch
        invoked == ~PromptFormatRaises
        appended ==
            IF PromptFormatRaises \/ reply.kind \in {"raises", "unparseable"}
            THEN << >>
            ELSE IF reply.kind \in {"not_object", "no_response"}
            THEN <<Turn("Customer", conv)>>
            ELSE <<Turn("Customer", conv), Turn("Agent", conv)>>
        returned == /\ ~PromptFormatRaises
                    /\ reply.kind = "object"
                    /\ reply.expected_loss # None
        narrated == [response |-> "narrator", offer |-> reply.offer,
                     expected_loss |-> reply.expected_loss,
                     escalate |-> reply.escalate]
        out == [history |-> conversation_history \o appended,
                invoked |-> invoked, raised |-> FALSE, result |-> None]
    IN  IF OptionsTextRaises(initial_options)
        THEN [history |-> conversation_history, invoked |-> FALSE,
              raised |-> TRUE, result |-> None]
        ELSE IF returned
        THEN [out EXCEPT !.result = Some(narrated)]
        ELSE IF round_number >= 3
        THEN [out EXCEPT !.result = Some(EscalationResult)]
        ELSE IF SimpleOfferRaises(ml_scores)
        THEN [out EXCEPT !.raised = TRUE]
        ELSE [out EXCEPT !.result = Some(_simple_offer(booking_request, ml_scores,
                                                       risk_constraints))]

\* MetaAgent.handle_negotiation: logs result['offer']['upfront'] unless the
\* result escalates, which raises TypeError for an offer of None
handle_negotiation(conv, round_number, booking_request, ml_scores, initial_options, reply) ==
    LET Logged(out) ==
            IF out.raised THEN out
            ELSE IF out.result[1].escalate THEN out
            ELSE IF out.result[1].offer = None
            THEN [out EXCEPT !.raised = TRUE, !.result = None]
            ELSE out
    IN  Logged(negotiate(conv, round_number, booking_request, ml_scores,
                         initial_options, RISK_CONSTRAINTS, reply))

\* a reset that forgets the last turn only
ResetDropsLastTurn(history) == SubSeq(history, 1, Len(history) - 1)

\* NegotiationAgent.reset_memory: self.conversation_history = []
reset_memory(history) == << >>

-----------------------------------------------------------------------------
(* State machine *)

Init ==
    /\ DECISION_MATRIX \in ConfiguredMatrices
    /\ dataset1 \in {None, Some(Dataset1)}
    /\ conversation_history = << >>
    /\ decision = None
    /\ neg = None
    /\ escalated = {}
    /\ served = {}
    /\ gate = None
    /\ gen = None
    /\ val = None
    /\ ana = None
    /\ running = << >>
    /\ fb = None

\* POST /api/booking/process -> MetaAgent.process_booking_request
ProcessBooking(booking_request, message) ==
    /\ decision' = Some(process_booking_request(booking_request, message))
    /\ UNCHANGED <<DECISION_MATRIX, dataset1, conversation_history, neg, escalated,
                   served, gate, gen, val, ana, running, fb>>

NextBooking ==
    \E booking_request \in BookingRequests, message \in CommsMessages :
        ProcessBooking(booking_request, message)

SpecBooking == Init /\ [][NextBooking]_vars

\* the scores and probabilities the pure functions are applied to
ScoreGrid == {0, 100, 2500, 2999, 3000, 3999, 4000, 5500, 5999, 6000,
              6999, 7000, 8500, 8999, 9000, 9900, 10000}

\* ModelLoader._categorize_risk applied to one pair of scores
CategorizeRisk(intent_score, capacity_score) ==
    /\ gate' = Some([intent_score |-> intent_score,
                     capacity_score |-> capacity_score,
                     category |-> _categorize_risk(intent_score, capacity_score)])
    /\ UNCHANGED <<DECISION_MATRIX, dataset1, conversation_history, decision, neg,
                   escalated, served, gen, val, ana, running, fb>>

\* the gate on the scores of a request and on the scores of a dataset row
NextGate ==
    \/ \E i \in ScoreGrid, c \in ScoreGrid :
         CategorizeRisk(Decimal(i, BpScale), Decimal(c, BpScale))
    \/ \E id \in DOMAIN Dataset1 :
         CategorizeRisk(_estimate_intent_score(Dataset1[id]),
                        _estimate_capacity_score(Dataset1[id]))

SpecGate == Init /\ [][NextGate]_vars

PdGrid == { <<20, 80, 150>>, <<5, 10, 30>>, <<3, 9, 18>>, <<18, 54, 108>>,
            <<27, 81, 162>>, <<0, 0, 0>>, <<0, 0, 150>>, <<100, 160, 250>> }
OutstandingGrid == {0, Rupees(20000), Rupees(45000), Rupees(48000), Rupees(50000),
                    Rupees(80000), Rupees(200000)}
BookingGrid == {0, Rupees(10000), Rupees(30000), Rupees(50000), Rupees(100000)}
\* amounts with paise, as <<outstanding, booking_amount>>: 47622.50 and 7.50
\* rupees outstanding with a booking of 50007.50 rupees
PaiseAmounts == { <<Rupees(47622) + 2, Rupees(50007) + 2>>,
                  <<Rupees(7) + 2, Rupees(50007) + 2>> }
MaxElGrid == {0, MAX_EXPECTED_LOSS}

\* tools.generate_options applied to one tuple of arguments
GenerateOptions(outstanding, booking_amount, pds, max_el) ==
    LET exposure == outstanding + booking_amount
    IN  /\ gen' = Some([exposure |-> exposure, outstanding |-> outstanding,
                        booking_amount |-> booking_amount,
                        pd_7d |-> pds[1], pd_14d |-> pds[2], pd_30d |-> pds[3],
                        lgd |-> LGD, max_el |-> max_el,
                        options |-> generate_options(exposure, outstanding,
                                        booking_amount, Decimal(pds[1], PdScale),
                                        Decimal(pds[2], PdScale),
                                        Decimal(pds[3], PdScale), LGD, max_el)])
        /\ UNCHANGED <<DECISION_MATRIX, dataset1, conversation_history, decision,
                       neg, escalated, served, gate, val, ana, running, fb>>

NextOptions ==
    \/ \E o \in OutstandingGrid, b \in BookingGrid, pds \in PdGrid, m \in MaxElGrid :
         GenerateOptions(o, b, pds, m)
    \/ \E ob \in PaiseAmounts, pds \in PdGrid, m \in MaxElGrid :
         GenerateOptions(ob[1], ob[2], pds, m)

InitOptions ==
    Init /\ DECISION_MATRIX = DEFAULT_DECISION_MATRIX /\ dataset1 = None

SpecOptions == InitOptions /\ [][NextOptions]_vars

\* TermsCrafterAgent.craft_options applied to the analysis of one booking, as
\* _negotiation_flow calls it
CraftOptions(outstanding, booking_amount, pds) ==
    LET booking_request == [MOCK_BOOKING_REQUEST EXCEPT
                                !.current_outstanding = outstanding,
                                !.booking_amount = booking_amount]
        ml_scores == [MlScores(MOCK_ML_SCORES) EXCEPT
                          !.pd_7d = Decimal(pds[1], PdScale),
                          !.pd_14d = Decimal(pds[2], PdScale),
                          !.pd_30d = Decimal(pds[3], PdScale)]
        financial_analysis == analyze(booking_request, ml_scores)
    IN  /\ gen' = Some([exposure |-> financial_analysis.total_exposure,
                        outstanding |-> outstanding,
                        booking_amount |-> booking_amount,
                        pd_7d |-> pds[1], pd_14d |-> pds[2], pd_30d |-> pds[3],
                        lgd |-> RISK_CONSTRAINTS.lgd,
                        max_el |-> RISK_CONSTRAINTS.max_expected_loss,
                        options |-> craft_options(financial_analysis, ml_scores,
                                                  RISK_CONSTRAINTS)])
        /\ UNCHANGED <<DECISION_MATRIX, dataset1, conversation_history, decision,
                       neg, escalated, served, gate, val, ana, running, fb>>

NextCraft ==
    \E o \in OutstandingGrid, b \in BookingGrid, pds \in PdGrid :
        CraftOptions(o, b, pds)

SpecCraft == InitOptions /\ [][NextCraft]_vars

\* the options validate_compliance is applied to: any dicts with the keys it
\* reads, whoever made them; expected_loss in paise
OptionGrid(option_id) ==
    { [option_id |-> option_id, expected_loss |-> el, upfront_amount |-> u,
       approved_amount |-> Rupees(30000), settlement_days |-> d] :
        el \in {MAX_EXPECTED_LOSS * PaiseScale, MAX_EXPECTED_LOSS * PaiseScale + 1},
        u \in {0, Rupees(30000), Rupees(30001)},
        d \in {6, 7, 90, 91} }

OptionLists ==
    { << >> } \cup { <<a>> : a \in OptionGrid("A") }
              \cup { <<a, b>> : a \in OptionGrid("A"), b \in OptionGrid("B") }

\* tools.validate_compliance applied to one list of options
ValidateCompliance(options, max_el) ==
    /\ val' = Some([options |-> options, max_el |-> max_el,
                    result |-> validate_compliance(options, max_el)])
    /\ UNCHANGED <<DECISION_MATRIX, dataset1, conversation_history, decision, neg,
                   escalated, served, gate, gen, ana, running, fb>>

NextValidate ==
    \E options \in OptionLists, max_el \in MaxElGrid : ValidateCompliance(options, max_el)

SpecValidate == InitOptions /\ [][NextValidate]_vars

\* FinancialAnalystAgent.analyze applied to one booking and one pd_30d
Analyze(outstanding, booking_amount, pd_30d) ==
    LET booking_request == [company_id |-> "IN-TRV-000567",
                            company_name |-> "MediumRisk Agency",
                            booking_amount |-> booking_amount,
                            current_outstanding |-> outstanding,
                            credit_limit |-> Rupees(80000)]
        ml_scores == [MlScores(MOCK_ML_SCORES) EXCEPT
                          !.pd_30d = Decimal(pd_30d, PdScale)]
    IN  /\ ana' = Some([booking_request |-> booking_request, ml_scores |-> ml_scores,
                        result |-> analyze(booking_request, ml_scores)])
        /\ UNCHANGED <<DECISION_MATRIX, dataset1, conversation_history, decision,
                       neg, escalated, served, gate, gen, val, running, fb>>

\* the arguments FinancialAnalystAgent.analyze is applied to
NextAnalyze ==
    \E o \in {0, Rupees(20000), Rupees(45000), Rupees(307143)},
       b \in {0, Rupees(10000), Rupees(30000), Rupees(50000)},
       pd \in {0, 10, 20, 30, 90, 150, 200} :
        Analyze(o, b, pd)

SpecAnalyze == InitOptions /\ [][NextAnalyze]_vars

MaxHistory == 4
MaxRound == 4

\* POST /api/negotiate -> MetaAgent.handle_negotiation.  The endpoint is an
\* async function that never awaits, so one call runs to its end before the
\* next starts.  neg records the call: the transcript it read, whether the
\* conversation had been answered escalate = true before, the conversations
\* served since the last reset, whether the Narrator was invoked, and the
\* outcome.
Negotiate(conv, round_number, initial_options, reply) ==
    LET Returned(out) ==
            /\ conversation_history' = out.history
            /\ neg' = Some([conv |-> conv, round_number |-> round_number,
                            initial_options |-> initial_options, reply |-> reply,
                            history_read |-> conversation_history,
                            after_escalation |-> conv \in escalated,
                            served_before |-> served,
                            narrator_invoked |-> out.invoked,
                            raised |-> out.raised, result |-> out.result])
            /\ escalated' = IF ~out.raised /\ out.result[1].escalate
                            THEN escalated \cup {conv} ELSE escalated
    IN  /\ Len(conversation_history) + 2 <= MaxHistory
        /\ Returned(handle_negotiation(conv, round_number, ConversationBooking(conv),
                                       ConversationScores(conv), initial_options,
                                       reply))
        /\ served' = served \cup {conv}
        /\ UNCHANGED <<DECISION_MATRIX, dataset1, decision, gate, gen, val, ana, running,
                       fb>>

\* POST /api/negotiate/reset -> MetaAgent.reset_negotiation_memory
ResetNegotiation ==
    /\ conversation_history' = reset_memory(conversation_history)
    /\ escalated' = {}
    /\ served' = {}
    /\ UNCHANGED <<DECISION_MATRIX, dataset1, decision, neg, gate, gen, val, ana, running,
                   fb>>

NextNegotiation ==
    \/ \E conv \in Conversations, round_number \in 1..MaxRound,
          initial_options \in InitialOptionLists :
         \E reply \in NarratorReplies(ConversationBooking(conv)) :
            Negotiate(conv, round_number, initial_options, reply)
    \/ ResetNegotiation

InitNegotiation ==
    Init /\ DECISION_MATRIX = DEFAULT_DECISION_MATRIX /\ dataset1 = None

SpecNegotiation == InitNegotiation /\ [][NextNegotiation]_vars

\* the lists reset_memory finds in self.conversation_history: the attribute is
\* a plain list, here empty or holding one round of one conversation
Transcripts ==
    { << >> } \cup { <<Turn("Customer", conv), Turn("Agent", conv)>> : conv \in Conversations }

InitReset ==
    /\ DECISION_MATRIX = DEFAULT_DECISION_MATRIX
    /\ dataset1 = None
    /\ conversation_history \in Transcripts
    /\ decision = None /\ neg = None /\ escalated = {} /\ served = {}
    /\ gate = None /\ gen = None /\ val = None /\ ana = None
    /\ running = << >>
    /\ fb = None

SpecReset == InitReset /\ [][NextNegotiation]_vars

\* NegotiationAgent.negotiate taken alone, on an empty transcript, for the
\* bookings and score sets a request can carry: the endpoint passes the
\* booking_request and ml_scores of the request body on unchanged.
NegotiateAlone(round_number, outstanding, booking_amount, pds, initial_options, reply) ==
    LET booking_request == [MOCK_BOOKING_REQUEST EXCEPT
                                !.current_outstanding = outstanding,
                                !.booking_amount = booking_amount]
        ml_scores == [MlScores(MOCK_ML_SCORES) EXCEPT
                          !.pd_7d = Decimal(pds[1], PdScale),
                          !.pd_14d = Decimal(pds[2], PdScale),
                          !.pd_30d = Decimal(pds[3], PdScale)]
        Returned(out) ==
            fb' = Some([round_number |-> round_number,
                        booking_request |-> booking_request,
                        ml_scores |-> ml_scores,
                        initial_options |-> initial_options, reply |-> reply,
                        narrator_invoked |-> out.invoked,
                        raised |-> out.raised, result |-> out.result])
    IN  /\ conversation_history = << >>
        /\ Returned(negotiate("c1", round_number, booking_request, ml_scores,
                              initial_options, RISK_CONSTRAINTS, reply))
        /\ UNCHANGED <<DECISION_MATRIX, dataset1, conversation_history, decision,
                       neg, escalated, served, gate, gen, val, ana, running>>

\* with the Narrator failing, or answering with neither offer nor loss
NextFallback ==
    \E round_number \in 1..MaxRound, o \in {0, Rupees(45000), Rupees(200000)},
       b \in {0, Rupees(30000), Rupees(50000)}, pds \in PdGrid,
       initial_options \in {<< >>, <<[option_id |-> "A"]>>} :
        \E reply \in {r \in NarratorReplies([booking_amount |-> b]) :
                          r.offer = None /\ r.expected_loss = None} :
            NegotiateAlone(round_number, o, b, pds, initial_options, reply)

SpecFallback == InitNegotiation /\ [][NextFallback]_vars

\* One call of negotiate in two steps, so that the time spent inside
\* self.llm.invoke shows.  The client is built from model, temperature and
\* google_api_key alone: no timeout is passed, so a Narrator that never
\* responds keeps the call inside invoke.
NarratorOutcomes(booking_request) ==
    NarratorReplies(booking_request) \cup {NarratorFailure("never_responds")}

\* the call enters negotiate, for the booking of config.py, and runs up to
\* self.llm.invoke, which it reaches unless formatting the prompt raised
EnterNegotiate(round_number, pds, initial_options, reply) ==
    /\ running = << >>
    /\ running' = << [round_number |-> round_number,
                      booking_request |-> MOCK_BOOKING_REQUEST,
                      ml_scores |-> [MlScores(MOCK_ML_SCORES) EXCEPT
                                         !.pd_7d = Decimal(pds[1], PdScale),
                                         !.pd_14d = Decimal(pds[2], PdScale),
                                         !.pd_30d = Decimal(pds[3], PdScale)],
                      initial_options |-> initial_options,
                      reply |-> reply,
                      in_invoke |-> /\ ~OptionsTextRaises(initial_options)
                                    /\ ~PromptFormatRaises] >>
    /\ fb' = None
    /\ UNCHANGED <<DECISION_MATRIX, dataset1, conversation_history, decision,
                   neg, escalated, served, gate, gen, val, ana>>

\* the call leaves negotiate: by its return statements or by an exception
ReturnFromNegotiate ==
    /\ Len(running) = 1
    /\ running[1].in_invoke => running[1].reply.kind # "never_responds"
    /\ LET call == running[1]
           Returned(out) ==
               fb' = Some([round_number |-> call.round_number,
                           booking_request |-> call.booking_request,
                           ml_scores |-> call.ml_scores,
                           initial_options |-> call.initial_options,
                           reply |-> call.reply,
                           narrator_invoked |-> out.invoked,
                           raised |-> out.raised, result |-> out.result])
       IN  Returned(negotiate("c1", call.round_number, call.booking_request,
                              call.ml_scores, call.initial_options,
                              RISK_CONSTRAINTS, call.reply))
    /\ running' = << >>
    /\ UNCHANGED <<DECISION_MATRIX, dataset1, conversation_history, decision,
                   neg, escalated, served, gate, gen, val, ana>>

NextWait ==
    \/ \E round_number \in 1..MaxRound, pds \in PdGrid,
          initial_options \in InitialOptionLists :
           \E reply \in NarratorOutcomes(MOCK_BOOKING_REQUEST) :
               EnterNegotiate(round_number, pds, initial_options, reply)
    \/ ReturnFromNegotiate

\* negotiate is straight-line code on the event loop: once entered it runs on
\* whenever it is not waiting inside invoke
SpecWait == InitNegotiation /\ [][NextWait]_vars /\ WF_vars(ReturnFromNegotiate)

\* POST /api/negotiate step by step.  running holds the calls whose coroutine
\* has started and not returned, each with the transcript it found.
MaxInFlight == 2

\* a plain def endpoint: FastAPI runs each call in a worker thread, so a call
\* starts while others run
StartsInThreadPool(calls) == Len(calls) < MaxInFlight

\* negotiate and reset_negotiation are async def and never await: the event
\* loop runs a call to its return before it starts the next one
StartsOnEventLoop(calls) == calls = << >>

BeginRound(conv, round_number, initial_options, reply) ==
    /\ StartsOnEventLoop(running)
    /\ Len(conversation_history) + 2 <= MaxHistory
    /\ running' = Append(running, [conv |-> conv, round_number |-> round_number,
                                   initial_options |-> initial_options,
                                   reply |-> reply,
                                   history_read |-> conversation_history])
    /\ UNCHANGED <<DECISION_MATRIX, dataset1, conversation_history, decision, neg,
                   escalated, served, gate, gen, val, ana, fb>>

\* the call running[i] returns: MetaAgent.handle_negotiation has run
EndRound(i) ==
    LET call == running[i]
        Returned(out) ==
            /\ conversation_history' = out.history
            /\ neg' = Some([conv |-> call.conv, round_number |-> call.round_number,
                            initial_options |-> call.initial_options,
                            reply |-> call.reply,
                            history_read |-> call.history_read,
                            after_escalation |-> call.conv \in escalated,
                            served_before |-> served,
                            narrator_invoked |-> out.invoked,
                            raised |-> out.raised, result |-> out.result])
            /\ escalated' = IF ~out.raised /\ out.result[1].escalate
                            THEN escalated \cup {call.conv} ELSE escalated
    IN  /\ Returned(handle_negotiation(call.conv, call.round_number,
                                       ConversationBooking(call.conv),
                                       ConversationScores(call.conv),
                                       call.initial_options, call.reply))
        /\ served' = served \cup {call.conv}
        /\ running' = SubSeq(running, 1, i - 1) \o SubSeq(running, i + 1, Len(running))
        /\ UNCHANGED <<DECISION_MATRIX, dataset1, decision, gate, gen, val, ana, fb>>

\* POST /api/negotiate/reset
ResetBetweenRounds ==
    /\ StartsOnEventLoop(running)
    /\ conversation_history' = reset_memory(conversation_history)
    /\ escalated' = {}
    /\ served' = {}
    /\ UNCHANGED <<DECISION_MATRIX, dataset1, decision, neg, gate, gen, val, ana,
                   running, fb>>

NextRounds ==
    \/ \E conv \in Conversations, round_number \in 1..MaxRound,
          initial_options \in {l \in InitialOptionLists : Len(l) <= 1} :
         \E reply \in NarratorReplies(ConversationBooking(conv)) :
            BeginRound(conv, round_number, initial_options, reply)
    \/ \E i \in 1..Len(running) : EndRound(i)
    \/ ResetBetweenRounds

SpecRounds == InitNegotiation /\ [][NextRounds]_vars

\* the whole service
Next == NextBooking \/ NextNegotiation

Spec == Init /\ [][Next]_vars

-----------------------------------------------------------------------------
(* Properties *)

\* an option passes the three checks of the validator
WithinLimits(opt, max_el) ==
    /\ opt.expected_loss <= max_el * PaiseScale
    /\ opt.upfront_amount <= opt.approved_amount
    /\ 7 <= opt.settlement_days /\ opt.settlement_days <= 90

\* C1: every option of the list generate_options returns has an expected loss
\* of at most max_el, so that validate_compliance finds no violation in the list.
C1_GeneratedOptionsWithinBudget ==
    gen # None =>
        LET g == gen[1]
        IN  /\ \A i \in 1..Len(g.options) :
                g.options[i].expected_loss <= g.max_el * PaiseScale
            /\ validate_compliance(g.options, g.max_el).compliant

\* the list holds an upfront-payment option whose upfront was capped at the
\* booking amount and whose expected loss is above the budget
C1_CappedUpfrontOverBudget ==
    /\ gen # None
    /\ \E i \in 1..Len(gen[1].options) :
        /\ gen[1].options[i].type = "upfront_payment"
        /\ gen[1].options[i].upfront_amount = gen[1].booking_amount
        /\ gen[1].options[i].expected_loss > gen[1].max_el * PaiseScale

\* C2: every option of a decision record whose decision is NEGOTIATE has an
\* expected loss of at most max_expected_loss, an upfront of at most the
\* approved amount and a settlement period of 7 to 90 days.
C2_NegotiateOptionsCompliant ==
    (decision # None /\ decision[1].decision = "NEGOTIATE") =>
        \A i \in 1..Len(decision[1].options[1]) :
            WithinLimits(decision[1].options[1][i], RISK_CONSTRAINTS.max_expected_loss)

\* a NEGOTIATE decision that offers an upfront-payment option
C2_NegotiateWithUpfrontOption ==
    /\ decision # None
    /\ decision[1].decision = "NEGOTIATE"
    /\ \E i \in 1..Len(decision[1].options[1]) :
        /\ decision[1].options[1][i].type = "upfront_payment"
        /\ decision[1].options[1][i].upfront_amount > 0

\* C3: the risk gate returns exactly one of the three categories: red iff the
\* intent score is at or above the block threshold, whatever the capacity;
\* green iff intent is below the block and the approve thresholds and capacity
\* is at or above the approve threshold; yellow in every other case.
C3_RiskGateCharacterised ==
    gate # None =>
        LET g == gate[1]
            red == ScoreAtLeast(g.intent_score, DECISION_MATRIX.block_intent_threshold)
            green ==
                /\ ~ScoreAtLeast(g.intent_score, DECISION_MATRIX.block_intent_threshold)
                /\ ~ScoreAtLeast(g.intent_score, DECISION_MATRIX.approve_intent_threshold)
                /\ ScoreAtLeast(g.capacity_score,
                                DECISION_MATRIX.approve_capacity_threshold)
        IN  /\ g.category \in {"red", "green", "yellow"}
            /\ (g.category = "red") <=> red
            /\ (g.category = "green") <=> green
            /\ (g.category = "yellow") <=> (~red /\ ~green)

\* red for scores that pass both approval thresholds: the block threshold of
\* the configuration lies below its approve threshold
C3_RedDespiteApprovalScores ==
    /\ gate # None
    /\ gate[1].category = "red"
    /\ ~ScoreAtLeast(gate[1].intent_score, DECISION_MATRIX.approve_intent_threshold)
    /\ ScoreAtLeast(gate[1].capacity_score, DECISION_MATRIX.approve_capacity_threshold)

\* an offer with its reported expected loss (in paise) passes the three checks
OfferVerified(offer, expected_loss, max_el) ==
    /\ offer # None
    /\ expected_loss # None
    /\ expected_loss[1] <= max_el * PaiseScale
    /\ offer[1].upfront <= offer[1].approved_amount
    /\ 7 <= offer[1].settlement_days /\ offer[1].settlement_days <= 90

\* the deterministic fallback offer of a conversation
FallbackOf(conv) ==
    _simple_offer(ConversationBooking(conv), ConversationScores(conv),
                  RISK_CONSTRAINTS)

\* the deterministic fallback of a conversation is computable and passes the checks
FallbackVerified(conv) ==
    /\ ~SimpleOfferRaises(ConversationScores(conv))
    /\ OfferVerified(FallbackOf(conv).offer, FallbackOf(conv).expected_loss,
                     RISK_CONSTRAINTS.max_expected_loss)

\* C5: a call whose round_number is greater than 3 computes and returns no
\* counter-offer: the Narrator is not invoked, and the call is rejected or its
\* result carries no offer and no expected loss.
C5_NoOfferAfterRoundThree ==
    (neg # None /\ neg[1].round_number > 3) =>
        /\ ~neg[1].narrator_invoked
        /\ \/ neg[1].raised /\ neg[1].result = None
           \/ /\ ~neg[1].raised
              /\ neg[1].result[1].offer = None
              /\ neg[1].result[1].expected_loss = None

\* a call with round_number 4 was answered with the escalation result
C5_RoundFourEscalated ==
    /\ neg # None
    /\ neg[1].round_number = 4
    /\ ~neg[1].raised
    /\ neg[1].result[1] = EscalationResult

\* C6: once a call of a conversation has returned escalate = true, every later
\* call of that conversation before a reset is rejected or returns the
\* escalation result again; it neither invokes the Narrator nor computes an offer.
C6_EscalationIsTerminal ==
    (neg # None /\ neg[1].after_escalation) =>
        /\ ~neg[1].narrator_invoked
        /\ neg[1].raised \/ neg[1].result[1] = EscalationResult

\* a call after the escalation of its conversation was answered with a new offer
C6_OfferAfterEscalation ==
    /\ neg # None
    /\ neg[1].after_escalation
    /\ ~neg[1].raised
    /\ neg[1].result[1].offer # None
    /\ ~neg[1].result[1].escalate

\* C7: a round returns escalate = true only when round_number >= 3 and neither
\* the Narrator path nor the deterministic fallback produces a verified offer;
\* an escalation result carries no offer and no expected loss, and every other
\* result carries an offer.
C7_EscalateOnlyWithoutVerifiedOffer ==
    (neg # None /\ ~neg[1].raised) =>
        LET r == neg[1].result[1]
            narrated == /\ neg[1].narrator_invoked
                        /\ neg[1].reply.kind = "object"
                        /\ OfferVerified(neg[1].reply.offer, neg[1].reply.expected_loss,
                                         RISK_CONSTRAINTS.max_expected_loss)
        IN  /\ r.escalate => /\ neg[1].round_number >= 3
                             /\ ~narrated
                             /\ ~FallbackVerified(neg[1].conv)
            /\ r.escalate => (r.offer = None /\ r.expected_loss = None)
            /\ ~r.escalate => r.offer # None

\* a round escalated although the deterministic fallback passes the checks
C7_EscalatedDespiteVerifiedFallback ==
    /\ neg # None
    /\ ~neg[1].raised
    /\ neg[1].result[1].escalate
    /\ neg[1].round_number >= 3
    /\ FallbackVerified(neg[1].conv)

\* the default probabilities of a conversation's scores are positive
PositiveProbabilities(conv) ==
    /\ ConversationScores(conv).pd_7d.n > 0
    /\ ConversationScores(conv).pd_14d.n > 0
    /\ ConversationScores(conv).pd_30d.n > 0

C10_CategoryIsGateOfScores ==
    decision # None =>
        decision[1].risk_category =
            _categorize_risk(decision[1].ml_scores.intent_score,
                             decision[1].ml_scores.capacity_score)

\* a booking was blocked as red although the gate puts its scores in yellow
C10_EmbeddedCategoryOverridesGate ==
    /\ decision # None
    /\ decision[1].decision = "BLOCKED"
    /\ decision[1].risk_category = "red"
    /\ _categorize_risk(decision[1].ml_scores.intent_score,
                        decision[1].ml_scores.capacity_score) = "yellow"

\* the category the Scorer returned for the company of the last decision
ScoredCategory == score_company(decision[1].booking_request.company_id).risk_category

\* the elements of a sequence
Range(seq) == { seq[i] : i \in 1..Len(seq) }

\* C11: for a green category process_booking_request returns APPROVED with the
\* requested booking amount and 30 settlement days, and calls no analyst, risk
\* assessment, options generator, validator, comms or negotiation component.
C11_GreenAutoApproved ==
    (decision # None /\ ScoredCategory = "green") =>
        /\ decision[1].decision = "APPROVED"
        /\ decision[1].risk_category = "green"
        /\ decision[1].approved_amount = Some(decision[1].booking_request.booking_amount)
        /\ decision[1].settlement_days = Some(30)
        /\ decision[1].invoked = {}
        /\ decision[1].financial_analysis = None
        /\ decision[1].options = None
        /\ decision[1].validation = None
        /\ decision[1].message = Some(ApprovalMessage(decision[1].booking_request))
        /\ ~decision[1].raised

\* a company of the dataset that the gate puts in green was approved
C11_GreenDatasetCompanyApproved ==
    /\ decision # None
    /\ dataset1 # None
    /\ decision[1].booking_request.company_id = "IN-TRV-000001"
    /\ ScoredCategory = "green"
    /\ decision[1].decision = "APPROVED"
    /\ decision[1].approved_amount = Some(Rupees(30000))

\* C12: for a red category process_booking_request returns BLOCKED with no
\* options; its reason names the intent violation iff intent_score >=
\* block_intent_threshold and the capacity violation iff capacity_score <
\* approve_capacity_threshold, and is never empty.
C12_RedBlockedWithThresholdReason ==
    (decision # None /\ ScoredCategory = "red") =>
        /\ decision[1].decision = "BLOCKED"
        /\ decision[1].options = None
        /\ decision[1].reason # None
        /\ ("High intent score" \in Range(decision[1].reason[1]))
              <=> ScoreAtLeast(decision[1].ml_scores.intent_score,
                               DECISION_MATRIX.block_intent_threshold)
        /\ ("Low capacity score" \in Range(decision[1].reason[1]))
              <=> ~ScoreAtLeast(decision[1].ml_scores.capacity_score,
                                DECISION_MATRIX.approve_capacity_threshold)
        /\ decision[1].reason[1] # << >>

\* a red block under the default matrix whose capacity score is below the
\* approve threshold and whose reason names the intent score alone
C12_RedWithoutCapacityReason ==
    /\ decision # None
    /\ DECISION_MATRIX = DEFAULT_DECISION_MATRIX
    /\ ScoredCategory = "red"
    /\ decision[1].decision = "BLOCKED"
    /\ ~ScoreAtLeast(decision[1].ml_scores.capacity_score,
                     DECISION_MATRIX.approve_capacity_threshold)
    /\ decision[1].reason = Some(<<"High intent score">>)

\* the list the options generator returns for the booking of the last decision
CraftedOptions ==
    craft_options(analyze(decision[1].booking_request, decision[1].ml_scores),
                  decision[1].ml_scores, RISK_CONSTRAINTS)

\* C13: for a yellow category and an empty list of options
\* process_booking_request returns BLOCKED with the reason that no options
\* satisfy the risk constraints, raises nothing, and calls neither the
\* validator nor the comms Narrator.
C13_EmptyOptionsBlocked ==
    (decision # None /\ ScoredCategory = "yellow" /\ CraftedOptions = << >>) =>
        /\ ~decision[1].raised
        /\ decision[1].decision = "BLOCKED"
        /\ decision[1].reason = Some(<<"No options satisfy risk constraints">>)
        /\ decision[1].options = None
        /\ "monitor" \notin decision[1].invoked
        /\ "comms" \notin decision[1].invoked

\* a yellow booking for which no construction clears the budget was blocked
C13_YellowWithoutOptions ==
    /\ decision # None
    /\ ScoredCategory = "yellow"
    /\ CraftedOptions = << >>
    /\ decision[1].decision = "BLOCKED"
    /\ decision[1].invoked = {"financial_analyst", "risk_ai", "terms_crafter"}

\* C14: for a yellow category and a list with at least one violation
\* process_booking_request returns BLOCKED with the violations and the
\* unchanged list attached and does not call the comms Narrator; it returns
\* NEGOTIATE only for a non-empty list without violations.
C14_ViolationsBlockUnrepaired ==
    /\ (decision # None /\ ScoredCategory = "yellow"
          /\ AllViolations(CraftedOptions, RISK_CONSTRAINTS.max_expected_loss) # << >>) =>
            /\ ~decision[1].raised
            /\ decision[1].decision = "BLOCKED"
            /\ decision[1].options = Some(CraftedOptions)
            /\ decision[1].validation # None
            /\ decision[1].validation[1].violations =
                  AllViolations(CraftedOptions, RISK_CONSTRAINTS.max_expected_loss)
            /\ decision[1].validation[1].violations # << >>
            /\ "comms" \notin decision[1].invoked
    /\ (decision # None /\ decision[1].decision = "NEGOTIATE") =>
            /\ decision[1].options = Some(CraftedOptions)
            /\ CraftedOptions # << >>
            /\ AllViolations(CraftedOptions, RISK_CONSTRAINTS.max_expected_loss) = << >>

\* a blocked list of three options of which exactly one has a violation
C14_BlockedWithCompliantOptions ==
    /\ decision # None
    /\ ScoredCategory = "yellow"
    /\ decision[1].decision = "BLOCKED"
    /\ decision[1].options # None
    /\ Len(decision[1].options[1]) = 3
    /\ Len(decision[1].validation[1].violations) = 1

\* the three checks in the order EL, upfront, settlement days
CheckOrder == <<"expected_loss", "upfront_amount", "settlement_days">>

CheckFails(opt, check, max_el) ==
    CASE check = "expected_loss" -> opt.expected_loss > max_el * PaiseScale
      [] check = "upfront_amount" -> opt.upfront_amount > opt.approved_amount
      [] check = "settlement_days" -> opt.settlement_days < 7 \/ opt.settlement_days > 90

\* the checks an option fails, in the order of CheckOrder
FailedChecks(opt, max_el) ==
    SelectSeq(CheckOrder, LAMBDA check : CheckFails(opt, check, max_el))

\* the position in the list of the option a violation names
PositionOf(options, option_id) ==
    CHOOSE i \in 1..Len(options) : options[i].option_id = option_id

\* C15: validate_compliance returns compliant = true iff every option passes
\* the three checks; violations has exactly one entry per failed check, in the
\* order of the options and within an option in the order EL, upfront,
\* settlement days; options_count is the length of the list.
C15_ValidatorExact ==
    val # None =>
        LET options == val[1].options
            max_el == val[1].max_el
            result == val[1].result
            v == result.violations
        IN  /\ result.compliant <=>
                  \A i \in 1..Len(options) : WithinLimits(options[i], max_el)
            /\ result.options_count = Len(options)
            /\ \A i \in 1..Len(options) :
                  SelectSeq(v, LAMBDA e : e.option_id = options[i].option_id)
                    = [j \in 1..Len(FailedChecks(options[i], max_el)) |->
                         [option_id |-> options[i].option_id,
                          check |-> FailedChecks(options[i], max_el)[j]]]
            /\ \A j \in 1..Len(v) : \E i \in 1..Len(options) :
                  v[j].option_id = options[i].option_id
            /\ \A j, k \in 1..Len(v) :
                  j < k => PositionOf(options, v[j].option_id)
                              <= PositionOf(options, v[k].option_id)

\* a list of two options whose first fails all three checks and whose second
\* fails the settlement days alone: four violations
C15_FourViolationsInOrder ==
    /\ val # None
    /\ Len(val[1].options) = 2
    /\ Len(FailedChecks(val[1].options[1], val[1].max_el)) = 3
    /\ FailedChecks(val[1].options[2], val[1].max_el) = <<"settlement_days">>
    /\ Len(val[1].result.violations) = 4
    /\ ~val[1].result.compliant

\* C16: every option generate_options returns for outstanding >= 0 and
\* booking_amount >= 0 has 0 <= upfront_amount <= approved_amount <= the
\* requested booking_amount and 7 <= settlement_days <= 90.
C16_OptionsWithinRequest ==
    (gen # None /\ gen[1].outstanding >= 0 /\ gen[1].booking_amount >= 0) =>
            \A opt \in Range(gen[1].options) :
                /\ 0 <= opt.upfront_amount
                /\ opt.upfront_amount <= opt.approved_amount
                /\ opt.approved_amount <= gen[1].booking_amount
                /\ 7 <= opt.settlement_days /\ opt.settlement_days <= 90

\* C16: for a booking of 50007.50 rupees with 47622.50 outstanding and the
\* default budget, the upfront option is capped at the booking amount and
\* rounded up to 50008 rupees, above the 50007.50 it approves
C16_RoundedUpfrontAboveApproved ==
    /\ gen # None
    /\ gen[1].max_el = MAX_EXPECTED_LOSS
    /\ gen[1].outstanding = Rupees(47622) + 2
    /\ gen[1].booking_amount = Rupees(50007) + 2
    /\ gen[1].pd_30d = 150
    /\ \E opt \in Range(gen[1].options) :
          /\ opt.type = "upfront_payment"
          /\ opt.approved_amount = gen[1].booking_amount
          /\ opt.upfront_amount = Rupees(50008)

\* the unrounded pd_30d * (current_outstanding + booking_amount) * lgd of the
\* last analysis, in ElScale units
AnalysedLoss ==
    calculate_expected_loss(ana[1].ml_scores.pd_30d.n,
                            ana[1].booking_request.current_outstanding
                              + ana[1].booking_request.booking_amount, LGD)

\* C17: analyze returns total_exposure = current_outstanding + booking_amount,
\* baseline EL = pd_30d * total_exposure * lgd, exceeds_risk_appetite =
\* (baseline EL > max_expected_loss) and exceeds_by = max(0, baseline EL -
\* max_expected_loss), so exceeds_by > 0 exactly when exceeds_risk_appetite;
\* for 45000 outstanding, a booking of 50000 and pd_30d 0.15 it returns 9975,
\* true and 4975.
C17_AnalysisAsDefined ==
    ana # None =>
        LET r == ana[1].result
            b == ana[1].booking_request
            max_el == MAX_EXPECTED_LOSS * ElScale
        IN  /\ r.total_exposure = b.current_outstanding + b.booking_amount
            /\ r.baseline_el_30d * (ElScale \div PaiseScale) = AnalysedLoss
            /\ r.exceeds_risk_appetite <=> (AnalysedLoss > max_el)
            /\ r.exceeds_by * (ElScale \div PaiseScale) = Max(0, AnalysedLoss - max_el)
            /\ (r.exceeds_by > 0) <=> r.exceeds_risk_appetite
            /\ (/\ b.current_outstanding = Rupees(45000)
                /\ b.booking_amount = Rupees(50000)
                /\ ana[1].ml_scores.pd_30d = Decimal(150, PdScale))
               => /\ r.baseline_el_30d = 9975 * PaiseScale
                  /\ r.exceeds_risk_appetite
                  /\ r.exceeds_by = 4975 * PaiseScale

\* C17: an exposure of 357143 rupees at pd_30d 0.02 has a loss of 5000.002:
\* above the budget, and returned as 5000.00 with exceeds_by 0.00
C17_ExceedsByLessThanAPaisa ==
    /\ ana # None
    /\ ana[1].booking_request.current_outstanding = Rupees(307143)
    /\ ana[1].booking_request.booking_amount = Rupees(50000)
    /\ ana[1].ml_scores.pd_30d = Decimal(20, PdScale)
    /\ AnalysedLoss > MAX_EXPECTED_LOSS * ElScale
    /\ ana[1].result.exceeds_risk_appetite
    /\ ana[1].result.exceeds_by = 0
    /\ ana[1].result.baseline_el_30d = MAX_EXPECTED_LOSS * PaiseScale

\* C18: at most one round of a negotiation session is being processed at any
\* time, and the transcript a round in process has read is the transcript as
\* it stands: no other round appends to it meanwhile.
C18_OneRoundInFlightPerSession ==
    /\ \A i, j \in 1..Len(running) :
          running[i].conv = running[j].conv => i = j
    /\ \A i \in 1..Len(running) :
          running[i].history_read = conversation_history

\* C18: a round of a conversation is being processed after an earlier round of
\* the same conversation has returned
C18_NextRoundOfSessionInFlight ==
    /\ Len(running) = 1
    /\ neg # None
    /\ neg[1].conv = running[1].conv
    /\ neg[1].round_number = 1
    /\ running[1].round_number = 2

\* the company ids score_company answers before it consults the dataset
TestCompanies == {"IN-TRV-000123", "IN-TRV-000999"}

\* score_company reaches its default: the id is not one of the test ids, and
\* the dataset is not loaded or has no row for the company
ScorerFails(company_id) ==
    /\ company_id \notin TestCompanies
    /\ \/ dataset1 = None
       \/ company_id \notin DOMAIN dataset1[1]

\* C19: for a company the dataset does not know, or when the dataset is not
\* available, score_company returns the default score set (category yellow)
\* and process_booking_request ends with a decision record, not an exception.
C19_ScoringNeverAborts ==
    (decision # None /\ ScorerFails(decision[1].booking_request.company_id)) =>
        /\ score_company(decision[1].booking_request.company_id) = MOCK_ML_SCORES
        /\ MOCK_ML_SCORES.risk_category = "yellow"
        /\ ~decision[1].raised

\* C19: the request of a company the loaded dataset lacks is scored with the
\* default set and then ends with the exception of the log line that reads
\* message['subject']
C19_DefaultScoredRequestRaises ==
    /\ decision # None
    /\ dataset1 # None
    /\ ScorerFails(decision[1].booking_request.company_id)
    /\ decision[1].booking_request = edge_booking
    /\ score_company(edge_booking.company_id) = MOCK_ML_SCORES
    /\ decision[1].ml_scores = MlScores(MOCK_ML_SCORES)
    /\ decision[1].invoked = {"financial_analyst", "risk_ai", "terms_crafter",
                              "monitor", "comms"}
    /\ decision[1].raised

\* a booking amount that is not positive, or a negative outstanding amount or
\* credit limit
MalformedAmount(booking_request) ==
    \/ booking_request.booking_amount <= 0
    \/ booking_request.current_outstanding < 0
    \/ booking_request.credit_limit < 0

\* C20: a booking request with a malformed amount is rejected before the
\* company is scored and the risk gate is applied, and yields no decision
\* record.
C20_MalformedRequestRejected ==
    (decision # None /\ MalformedAmount(decision[1].booking_request)) =>
        /\ decision[1].decision \notin {"APPROVED", "BLOCKED", "NEGOTIATE"}
        /\ decision[1].invoked = {}
        /\ decision[1].ml_scores # MlScores(score_company(decision[1].booking_request.company_id))

\* C20: a booking of -30000 rupees is scored green and approved for -30000
C20_NegativeBookingApproved ==
    /\ decision # None
    /\ decision[1].booking_request.booking_amount = 0 - Rupees(30000)
    /\ decision[1].ml_scores = MlScores(GREEN_FLAG_SCORES)
    /\ decision[1].decision = "APPROVED"
    /\ decision[1].approved_amount = Some(0 - Rupees(30000))

\* C21: a reset leaves the transcript empty whatever it held, a second reset
\* would change nothing more, and the reset changes nothing but the transcript
\* (and the notes "since the last reset" the model keeps beside it).
C21_ResetEmptiesTranscriptOnly ==
    [][ResetNegotiation =>
          /\ conversation_history' = << >>
          /\ reset_memory(conversation_history') = conversation_history'
          /\ UNCHANGED <<DECISION_MATRIX, dataset1, decision, neg, gate, gen, val,
                         ana, running, fb>>]_vars

\* C21: the transcript is empty after a reset that followed a round which had
\* read a transcript of two turns
C21_ResetAfterRoundWithTranscript ==
    /\ conversation_history = << >>
    /\ served = {}
    /\ neg # None
    /\ Len(neg[1].history_read) = 2

\* the last step was a negotiation round (no reset since), and it returned an
\* offer
RoundReturnedOffer ==
    /\ neg # None
    /\ served # {}
    /\ ~neg[1].raised
    /\ neg[1].result[1].offer # None
    /\ ~neg[1].result[1].escalate

\* C22: a round that returns an offer, the Narrator's or the fallback's, leaves
\* the transcript it read extended by exactly the customer turn and the agent
\* turn of that round.
C22_OfferRoundAppendsTwoTurns ==
    RoundReturnedOffer =>
        conversation_history =
            neg[1].history_read \o <<Turn("Customer", neg[1].conv),
                                     Turn("Agent", neg[1].conv)>>

\* C22: a first round whose Narrator call failed returned the fallback offer
\* and left the transcript empty
C22_FallbackOfferLeavesTranscript ==
    /\ RoundReturnedOffer
    /\ neg[1].round_number = 1
    /\ neg[1].reply.kind = "raises"
    /\ neg[1].result[1].response = "simple_offer"
    /\ neg[1].history_read = << >>
    /\ conversation_history = << >>

-----------------------------------------------------------------------------
(* The deterministic fallback of a negotiation round *)

\* the last call returned the offer of _simple_offer
FallbackReturned ==
    /\ fb # None
    /\ ~fb[1].raised
    /\ fb[1].result[1].response = "simple_offer"

\* C23: the fallback offer a negotiation round returns is the 10-day offer for
\* the whole booking_amount, and its expected_loss is at most
\* max_expected_loss, for every booking with outstanding >= 0 and
\* booking_amount >= 0 and every score set with default probabilities above 0
C23_FallbackWithinMaxExpectedLoss ==
    (/\ FallbackReturned
     /\ fb[1].booking_request.current_outstanding >= 0
     /\ fb[1].booking_request.booking_amount >= 0
     /\ fb[1].ml_scores.pd_7d.n > 0 /\ fb[1].ml_scores.pd_14d.n > 0
     /\ fb[1].ml_scores.pd_30d.n > 0)
    => LET result == fb[1].result[1]
       IN  /\ result.offer[1].settlement_days = 10
           /\ result.offer[1].approved_amount = fb[1].booking_request.booking_amount
           /\ result.expected_loss[1] <= MAX_EXPECTED_LOSS * PaiseScale

\* a fallback whose upfront is held at half the booking_amount while the loss
\* of the remaining exposure is above max_expected_loss
C23_FallbackCappedAtHalfBooking ==
    /\ FallbackReturned
    /\ fb[1].ml_scores.pd_7d.n > 0 /\ fb[1].ml_scores.pd_14d.n > 0
    /\ fb[1].result[1].offer[1].upfront = fb[1].booking_request.booking_amount \div 2
    /\ fb[1].result[1].expected_loss[1] > MAX_EXPECTED_LOSS * PaiseScale

\* the last call built its options text, entered the try block and left it
\* through the except branch: the prompt could not be formatted, or the
\* Narrator's answer was not an object with 'response' and a number to log
NarratorCallFailed ==
    /\ fb # None
    /\ ~OptionsTextRaises(fb[1].initial_options)
    /\ \/ PromptFormatRaises
       \/ fb[1].reply.kind # "object"
       \/ fb[1].reply.expected_loss = None

\* C24: in a round below 3 whose Narrator call failed the fallback returns an
\* offer without raising, for every score set with default probabilities in
\* [0,1], pd_7d = pd_14d = 0 included
C24_FallbackAlwaysReturnsOffer ==
    (NarratorCallFailed /\ fb[1].round_number < 3)
    => /\ ~fb[1].raised
       /\ fb[1].result[1].response = "simple_offer"
       /\ fb[1].result[1].offer # None

\* a round below 3 for a score set with pd_7d = pd_14d = 0 ends with the
\* exception of the division by pd_10d * LGD
C24_FallbackDividesByZero ==
    /\ NarratorCallFailed
    /\ fb[1].round_number < 3
    /\ fb[1].ml_scores.pd_7d.n = 0 /\ fb[1].ml_scores.pd_14d.n = 0
    /\ fb[1].raised
    /\ fb[1].result = None

-----------------------------------------------------------------------------
(* The options of generate_options, kind by kind *)

\* the positions of the options of one kind in the returned list
OptionsOfType(type) ==
    { i \in 1..Len(gen[1].options) : gen[1].options[i].type = type }

\* u = exposure - max_el / (pd_30d * lgd) of the last call, not clamped, times
\* pd_30d * lgd
UnclampedUpfront ==
    gen[1].exposure * (gen[1].pd_30d * gen[1].lgd) - gen[1].max_el * ElScale

\* pd_30d > 0 and 0 < required_upfront < booking_amount * 1.2 for the
\* arguments of the last call, on the floats that are compared:
\* required_upfront = max(0, exposure - (max_el / (pd_30d * lgd)))
UpfrontAdmitted ==
    LET Between(required_upfront) ==
            /\ FloatLess(FloatOfInt(0), required_upfront)
            /\ FloatLess(required_upfront,
                         FloatMul(FloatOfDecimal(gen[1].booking_amount, AmountScale),
                                  FloatOfDecimal(12, 10)))
    IN  /\ gen[1].pd_30d > 0
        /\ Between(FloatSubOrZero(
                       FloatOfDecimal(gen[1].exposure, AmountScale),
                       FloatDiv(FloatOfInt(gen[1].max_el),
                                FloatMul(FloatOfDecimal(gen[1].pd_30d, PdScale),
                                         FloatOfDecimal(gen[1].lgd, LgdScale)))))

\* C25: generate_options returns an upfront_payment option iff pd_30d > 0 and
\* 0 < u < 1.2 * booking_amount; the option has settlement_days 30,
\* approved_amount = booking_amount and upfront_amount = min(u, booking_amount);
\* with pd_30d = 0 there is no such option
C25_UpfrontOptionAsDescribed ==
    gen # None =>
        /\ OptionsOfType("upfront_payment") # {} <=> UpfrontAdmitted
        /\ \A i \in OptionsOfType("upfront_payment") :
              LET opt == gen[1].options[i]
                  Den == gen[1].pd_30d * gen[1].lgd
              IN  /\ opt.settlement_days = 30
                  /\ opt.approved_amount = gen[1].booking_amount
                  /\ opt.upfront_amount * Den
                       = Min(UnclampedUpfront, gen[1].booking_amount * Den)

\* an upfront option whose upfront_amount is below u, with u below the
\* booking_amount
C25_UpfrontRoundedBelowRequired ==
    /\ gen # None
    /\ UpfrontAdmitted
    /\ \E i \in OptionsOfType("upfront_payment") :
          LET Den == gen[1].pd_30d * gen[1].lgd
          IN  /\ UnclampedUpfront < gen[1].booking_amount * Den
              /\ gen[1].options[i].upfront_amount * Den < UnclampedUpfront

\* el_partial <= max_el for the fraction partial_pct = pct / 10 and the
\* arguments of the last call, on the floats that are compared: el_partial =
\* pd_14d * (outstanding + booking_amount * partial_pct) * lgd
PartialFits(pct) ==
    LET partial_booking == FloatMul(FloatOfDecimal(gen[1].booking_amount, AmountScale),
                                    FloatOfDecimal(pct, 10))
        partial_exposure == FloatAdd(FloatOfDecimal(gen[1].outstanding, AmountScale),
                                     partial_booking)
        el_partial == FloatLoss(FloatOfDecimal(gen[1].pd_14d, PdScale),
                                partial_exposure,
                                FloatOfDecimal(gen[1].lgd, LgdScale))
    IN  ~FloatLess(FloatOfInt(gen[1].max_el), el_partial)

\* the fractions of the loop, in tenths, whose el_partial is within max_el
FittingPcts == { pct \in Range(PartialPcts) : PartialFits(pct) }

\* C26: generate_options returns at most one partial_approval option; there is
\* one iff some fraction of 50%, 40%, 30%, 20% keeps the 14-day loss within
\* max_el; it uses the largest such fraction f, with approved_amount =
\* f * booking_amount, settlement_days 14 and no upfront; its friction_score
\* is the higher the lower f
C26_PartialOptionAsDescribed ==
    gen # None =>
        /\ Cardinality(OptionsOfType("partial_approval")) <= 1
        /\ OptionsOfType("partial_approval") # {} <=> FittingPcts # {}
        /\ \A i \in OptionsOfType("partial_approval") :
              \E pct \in FittingPcts :
                  /\ \A other \in FittingPcts : other <= pct
                  /\ gen[1].options[i].approved_amount * 10
                       = gen[1].booking_amount * pct
                  /\ gen[1].options[i].settlement_days = 14
                  /\ gen[1].options[i].upfront_amount = 0
                  /\ gen[1].options[i].friction_score = PartialFriction(pct)
        /\ \A p, q \in Range(PartialPcts) :
              p < q => PartialFriction(p) > PartialFriction(q)

\* a partial option that approves more than the fraction of the booking whose
\* loss was computed
C26_PartialAmountRoundedUp ==
    /\ gen # None
    /\ \E i \in OptionsOfType("partial_approval") :
          \E pct \in FittingPcts :
              /\ \A other \in FittingPcts : other <= pct
              /\ gen[1].options[i].approved_amount * 10
                   > gen[1].booking_amount * pct

OptionTypes == {"shortened_settlement", "upfront_payment", "partial_approval"}

\* C27: the list generate_options returns has between 0 and 3 options, at
\* most one of each kind, and is sorted ascending by friction_score
C27_OptionListShape ==
    gen # None =>
        /\ Len(gen[1].options) \in 0..3
        /\ \A i \in 1..Len(gen[1].options) : gen[1].options[i].type \in OptionTypes
        /\ \A type \in OptionTypes : Cardinality(OptionsOfType(type)) <= 1
        /\ \A i, j \in 1..Len(gen[1].options) :
              i < j => gen[1].options[i].friction_score
                         <= gen[1].options[j].friction_score

\* a call that has no shortened option and several fractions whose 14-day
\* loss fits, and returns the upfront option and one partial option
C27_SeveralFractionsFitOneReturned ==
    /\ gen # None
    /\ OptionsOfType("shortened_settlement") = {}
    /\ Cardinality(FittingPcts) >= 2
    /\ Len(gen[1].options) = 2
    /\ gen[1].options[1].type = "upfront_payment"
    /\ gen[1].options[2].type = "partial_approval"

-----------------------------------------------------------------------------
(* Completion of a negotiation round *)

\* the last call ended with an offer or with an escalation
RoundHasResult ==
    /\ fb # None
    /\ ~fb[1].raised
    /\ fb[1].result # None
    /\ fb[1].result[1].offer # None \/ fb[1].result[1].escalate

\* C28: every negotiation round eventually completes, and completes with a
\* result (an offer or an escalation), even if the Narrator never responds
C28_RoundCompletesWithResult ==
    /\ (running # << >>) ~> (running = << >>)
    /\ [][(running # << >> /\ running' = << >>) => RoundHasResult']_vars

\* a round whose Narrator never responds has ended without a result
C28_RoundEndedWithoutResult ==
    /\ running = << >>
    /\ fb # None
    /\ fb[1].reply.kind = "never_responds"
    /\ fb[1].round_number < 3
    /\ ~OptionsTextRaises(fb[1].initial_options)
    /\ fb[1].raised
    /\ ~RoundHasResult

-----------------------------------------------------------------------------
(* Labels of the crafted options *)

\* the order in which generate_options builds the kinds
KindOrder == <<"shortened_settlement", "upfront_payment", "partial_approval">>

KindRank(type) == CHOOSE k \in 1..Len(KindOrder) : KindOrder[k] = type

\* C30: in every list craft_options returns the kinds appear in the order
\* shortened_settlement, upfront_payment, partial_approval, and the option_ids
\* are A, B, C by position without gaps: the id is the rank in the list
C30_IdsByRankKindsInOrder ==
    gen # None =>
        /\ \A i \in 1..Len(gen[1].options) :
              gen[1].options[i].option_id = option_ids[i]
        /\ \A i, j \in 1..Len(gen[1].options) :
              i < j => KindRank(gen[1].options[i].type)
                         < KindRank(gen[1].options[j].type)

\* no shortened_settlement option is admitted and the upfront_payment option
\* is labelled A, the partial_approval option B
C30_UpfrontOptionLabelledA ==
    /\ gen # None
    /\ Len(gen[1].options) = 2
    /\ gen[1].options[1].type = "upfront_payment"
    /\ gen[1].options[1].option_id = "A"
    /\ gen[1].options[2].type = "partial_approval"
    /\ gen[1].options[2].option_id = "B"

=============================================================================
